---------------------------- MODULE Spec2Model ----------------------------
(***************************************************************************)
(* A model of the FGP daemon: the NDJSON message model (protocol.rs) and   *)
(* the UNIX-socket server with its per-connection handler (server.rs).     *)
(*                                                                         *)
(* Representation of data:                                                 *)
(*  - a string is a sequence of atoms; an atom is either a maximal run of  *)
(*    ordinary characters (written as one TLA+ string such as "health")    *)
(*    or one of the special characters ".", "\n", "\"" and "\\";           *)
(*  - a serde_json::Value is a tagged tuple (JNull, JBool, JNum, JStr,     *)
(*    JObj); an object is a function from keys to values;                  *)
(*  - Option<T> is None or Some(x);                                        *)
(*  - a JSON document on the wire is the same tagged tuple, but its string *)
(*    leaves hold the escaped text that serde_json writes.                 *)
(***************************************************************************)
EXTENDS Integers, Sequences, FiniteSets, TLC

(***************************************************************************)
(* Bounds of the model.                                                    *)
(***************************************************************************)
NumConns == 2
MaxLines == 2

(***************************************************************************)
(* Program constants.                                                      *)
(***************************************************************************)
PROTOCOL_VERSION == 1
U8Max == 255

\* protocol.rs, mod error_codes (strings)
INVALID_REQUEST == << "INVALID_REQUEST" >>
INTERNAL_ERROR == << "INTERNAL_ERROR" >>
UNKNOWN_METHOD == << "UNKNOWN_METHOD" >>

(***************************************************************************)
(* Strings.                                                                *)
(***************************************************************************)
Dot == "."
Newline == "\n"
Quote == "\""
Backslash == "\\"

StartsWith(s, p) == Len(s) >= Len(p) /\ SubSeq(s, 1, Len(p)) = p

Contains(s, ch) == \E i \in 1..Len(s) : s[i] = ch

\* &s[n..]
StrFrom(s, n) == SubSeq(s, n + 1, Len(s))

RECURSIVE EscapeStr(_)
\* serde_json's string writer: a newline becomes \n, a quote \", a
\* backslash \\; every other character is written as it is.
EscapeStr(s) ==
  IF s = << >> THEN << >>
  ELSE LET c == Head(s)
           e == IF c = Newline THEN << Backslash, "n" >>
                ELSE IF c = Quote THEN << Backslash, Quote >>
                ELSE IF c = Backslash THEN << Backslash, Backslash >>
                ELSE << c >>
       IN  e \o EscapeStr(Tail(s))

RECURSIVE UnescapeStr(_)
\* serde_json's string reader, the inverse direction.
UnescapeStr(t) ==
  IF t = << >> THEN << >>
  ELSE IF Head(t) = Backslash /\ Len(t) >= 2
       THEN LET c == t[2]
                d == IF c = "n" THEN Newline ELSE c
            IN  << d >> \o UnescapeStr(SubSeq(t, 3, Len(t)))
       ELSE << Head(t) >> \o UnescapeStr(Tail(t))

(***************************************************************************)
(* Option<T> and Result<T, E>.                                             *)
(***************************************************************************)
None == << "None" >>
Some(x) == << "Some", x >>
IsSome(o) == o[1] = "Some"
IsNone(o) == o[1] = "None"
Unwrap(o) == o[2]

Ok(x) == << "Ok", x >>
Err(e) == << "Err", e >>
IsOk(r) == r[1] = "Ok"
IsErr(r) == r[1] = "Err"

(***************************************************************************)
(* serde_json::Value.                                                      *)
(***************************************************************************)
JNull == << "null" >>
JBool(b) == << "bool", b >>
JNum(n) == << "num", n >>
JStr(s) == << "str", s >>
JObj(m) == << "obj", m >>
JArr(a) == << "arr", a >>

Tag(v) == v[1]
Payload(v) == v[2]

EmptyMap == << >>

HasKey(m, k) == k \in DOMAIN m

RECURSIVE WriteValue(_)
\* serde_json::to_string on a Value: the text of the document.
WriteValue(v) ==
  IF Tag(v) = "str" THEN JStr(EscapeStr(Payload(v)))
  ELSE IF Tag(v) = "obj"
       THEN JObj([k \in DOMAIN Payload(v) |-> WriteValue(Payload(v)[k])])
  ELSE IF Tag(v) = "arr"
       THEN JArr([i \in DOMAIN Payload(v) |-> WriteValue(Payload(v)[i])])
       ELSE v

RECURSIVE ParseValue(_)
\* serde_json::from_str into a Value.
ParseValue(w) ==
  IF Tag(w) = "str" THEN JStr(UnescapeStr(Payload(w)))
  ELSE IF Tag(w) = "obj"
       THEN JObj([k \in DOMAIN Payload(w) |-> ParseValue(Payload(w)[k])])
  ELSE IF Tag(w) = "arr"
       THEN JArr([i \in DOMAIN Payload(w) |-> ParseValue(Payload(w)[i])])
       ELSE w

RECURSIVE RawNewline(_)
\* the text of a document has a newline character in it: serde_json's
\* compact writer puts none between the tokens, so it can only come from
\* the text of a string
RawNewline(w) ==
  IF w = << "garbage" >> THEN FALSE
  ELSE IF Tag(w) = "str" THEN Contains(Payload(w), Newline)
  ELSE IF Tag(w) \in { "obj", "arr" }
       THEN \E k \in DOMAIN Payload(w) : RawNewline(Payload(w)[k])
       ELSE FALSE

(***************************************************************************)
(* Lines on the wire.  A line is a whitespace-only line, a line of bytes   *)
(* that are not UTF-8, or a line of text; the text is either not JSON at   *)
(* all (Garbage) or a JSON document.                                       *)
(***************************************************************************)
BlankLine == << "blank" >>
BytesLine == << "bytes" >>
TextLine(doc) == << "text", doc >>
Garbage == << "garbage" >>

LineKind(l) == l[1]
\* the text of a line as JSON; white space only is no JSON document
LineDoc(l) == IF LineKind(l) = "text" THEN l[2] ELSE Garbage

(***************************************************************************)
(* protocol.rs: Request.                                                   *)
(***************************************************************************)
MkRequest(id, v, method, params) ==
  [id |-> id, v |-> v, method |-> method, params |-> params]

ParseRequestError == << "Failed to parse request JSON" >>

\* serde's derived impl Serialize for Request: all four fields are written.
SerRequest(req) ==
  JObj([k \in {"id", "v", "method", "params"} |->
          CASE k = "id" -> JStr(EscapeStr(req.id))
            [] k = "v" -> JNum(req.v)
            [] k = "method" -> JStr(EscapeStr(req.method))
            [] k = "params" -> WriteValue(JObj(req.params))])

\* a u8 field accepts an integer number in 0..255 and nothing else
IsU8(w) == Tag(w) = "num" /\ Payload(w) \in 0..U8Max

\* serde's derived impl Deserialize for Request: id, v and method are
\* required and typed; params falls back to the empty map when the key is
\* absent (#[serde(default)]), unknown keys are ignored.
DeRequest(doc) ==
  IF doc = Garbage \/ Tag(doc) # "obj" THEN Err(ParseRequestError)
  ELSE LET m == Payload(doc) IN
       IF ~ (HasKey(m, "id") /\ HasKey(m, "v") /\ HasKey(m, "method"))
         THEN Err(ParseRequestError)
       ELSE IF Tag(m["id"]) # "str" \/ ~ IsU8(m["v"]) \/ Tag(m["method"]) # "str"
         THEN Err(ParseRequestError)
       ELSE IF HasKey(m, "params") /\ Tag(m["params"]) # "obj"
         THEN Err(ParseRequestError)
       ELSE Ok(MkRequest(UnescapeStr(Payload(m["id"])),
                         Payload(m["v"]),
                         UnescapeStr(Payload(m["method"])),
                         IF HasKey(m, "params")
                           THEN Payload(ParseValue(m["params"]))
                           ELSE EmptyMap))

\* a to_ndjson_line that writes the strings of a request as they are
RequestToNdjsonLine_Raw(req) ==
  TextLine(JObj([k \in {"id", "v", "method", "params"} |->
                   CASE k = "id" -> JStr(req.id)
                     [] k = "v" -> JNum(req.v)
                     [] k = "method" -> JStr(req.method)
                     [] k = "params" -> JObj(req.params)]))

\* Request::to_ndjson_line
RequestToNdjsonLine(req) == TextLine(SerRequest(req))

\* Request::from_ndjson_line
RequestFromNdjsonLine(line) == DeRequest(LineDoc(line))

(***************************************************************************)
(* protocol.rs: Response, ErrorInfo, ResponseMeta.                         *)
(***************************************************************************)
MkMeta(server_ms) == [server_ms |-> server_ms, protocol_v |-> PROTOCOL_VERSION]

\* Response::success
ResponseSuccess(id, result, server_ms) ==
  [id |-> id, ok |-> TRUE, result |-> Some(result), error |-> None,
   meta |-> MkMeta(server_ms)]

\* Response::error
ResponseError(id, code, message, server_ms) ==
  [id |-> id, ok |-> FALSE, result |-> None,
   error |-> Some([code |-> code, message |-> message, details |-> None]),
   meta |-> MkMeta(server_ms)]

\* Response::error_with_details
ResponseErrorWithDetails(id, code, message, details, server_ms) ==
  [id |-> id, ok |-> FALSE, result |-> None,
   error |-> Some([code |-> code, message |-> message, details |-> Some(details)]),
   meta |-> MkMeta(server_ms)]

\* impl Serialize for ErrorInfo: details is skipped when it is None
SerErrorInfo(e) ==
  JObj([k \in {"code", "message"} \cup (IF IsSome(e.details) THEN {"details"} ELSE {}) |->
          CASE k = "code" -> JStr(EscapeStr(e.code))
            [] k = "message" -> JStr(EscapeStr(e.message))
            [] k = "details" -> WriteValue(Unwrap(e.details))])

SerMeta(m) ==
  JObj([k \in {"server_ms", "protocol_v"} |->
          IF k = "server_ms" THEN JNum(m.server_ms) ELSE JNum(m.protocol_v)])

\* impl Serialize for Response: result and error are skipped when None
\* (skip_serializing_if = "Option::is_none"); Some(x) writes x, also when
\* x is the JSON null.
SerResponse(r) ==
  JObj([k \in {"id", "ok", "meta"}
               \cup (IF IsSome(r.result) THEN {"result"} ELSE {})
               \cup (IF IsSome(r.error) THEN {"error"} ELSE {}) |->
          CASE k = "id" -> JStr(EscapeStr(r.id))
            [] k = "ok" -> JBool(r.ok)
            [] k = "result" -> WriteValue(Unwrap(r.result))
            [] k = "error" -> SerErrorInfo(Unwrap(r.error))
            [] k = "meta" -> SerMeta(r.meta)])

ParseResponseError == << "Failed to parse response JSON" >>

\* serde's Deserialize for Option<Value>: an absent key and a JSON null
\* both give None, anything else gives Some.
DeOptionValue(m, k) ==
  IF HasKey(m, k) /\ m[k] # JNull THEN Some(ParseValue(m[k])) ELSE None

ErrorInfoWellTyped(w) ==
  /\ Tag(w) = "obj"
  /\ HasKey(Payload(w), "code") /\ Tag(Payload(w)["code"]) = "str"
  /\ HasKey(Payload(w), "message") /\ Tag(Payload(w)["message"]) = "str"

DeErrorInfo(w) ==
  [code |-> UnescapeStr(Payload(Payload(w)["code"])),
   message |-> UnescapeStr(Payload(Payload(w)["message"])),
   details |-> DeOptionValue(Payload(w), "details")]

MetaWellTyped(w) ==
  /\ Tag(w) = "obj"
  /\ HasKey(Payload(w), "server_ms") /\ Tag(Payload(w)["server_ms"]) = "num"
  /\ HasKey(Payload(w), "protocol_v") /\ IsU8(Payload(w)["protocol_v"])

\* serde's derived impl Deserialize for Response
DeResponse(doc) ==
  IF doc = Garbage \/ Tag(doc) # "obj" THEN Err(ParseResponseError)
  ELSE LET m == Payload(doc) IN
       IF ~ (HasKey(m, "id") /\ HasKey(m, "ok") /\ HasKey(m, "meta"))
         THEN Err(ParseResponseError)
       ELSE IF Tag(m["id"]) # "str" \/ Tag(m["ok"]) # "bool" \/ ~ MetaWellTyped(m["meta"])
         THEN Err(ParseResponseError)
       ELSE IF HasKey(m, "error") /\ m["error"] # JNull /\ ~ ErrorInfoWellTyped(m["error"])
         THEN Err(ParseResponseError)
       ELSE Ok([id |-> UnescapeStr(Payload(m["id"])),
                ok |-> Payload(m["ok"]),
                result |-> DeOptionValue(m, "result"),
                error |-> IF HasKey(m, "error") /\ m["error"] # JNull
                            THEN Some(DeErrorInfo(m["error"]))
                            ELSE None,
                meta |-> [server_ms |-> Payload(Payload(m["meta"])["server_ms"]),
                          protocol_v |-> Payload(Payload(m["meta"])["protocol_v"])]])

\* Response::to_ndjson_line
ResponseToNdjsonLine(r) == TextLine(SerResponse(r))

\* Response::from_ndjson_line
ResponseFromNdjsonLine(line) == DeResponse(LineDoc(line))

(***************************************************************************)
(* service.rs: the service behind the server.  Its name is fixed when the  *)
(* server is constructed; what dispatch, health_check and method_list      *)
(* return is up to the implementation, so the model draws it from small    *)
(* sets.                                                                   *)
(***************************************************************************)
\* the names of the built-in methods
Health == << "health" >>
Stop == << "stop" >>
Methods == << "methods" >>

ServiceNames == { << "t" >>, << "a", Dot, "b" >> }

ServiceVersion == << "1", Dot, "0", Dot, "0" >>

\* what FgpService::dispatch can return: Ok(value) or Err(failure)
DispatchOutcomes ==
  { Ok(JNull),
    Ok(JObj([sum |-> JNum(42)])),
    Err(<< "Missing parameter: ", "b" >>) }

\* HealthStatus::healthy() and HealthStatus::unhealthy(message)
HealthStatusHealthy == [ok |-> TRUE, message |-> None]
HealthStatusUnhealthy == [ok |-> FALSE, message |-> Some(<< "down" >>)]

\* what FgpService::health_check can return
HealthMaps ==
  { EmptyMap,
    [db |-> HealthStatusHealthy],
    [db |-> HealthStatusUnhealthy],
    [db |-> HealthStatusHealthy, net |-> HealthStatusUnhealthy] }

\* MethodInfo::new(name, description)
MethodInfoNew(name, description) == [name |-> name, description |-> description]

\* what FgpService::method_list returns for a service named name
ServiceMethodList(name) ==
  << MethodInfoNew(<< "add" >>, << "Add two numbers" >>),
     MethodInfoNew(name \o << Dot, "echo" >>, << "Echo a message" >>),
     MethodInfoNew(Health, << "A health method of the service" >>),
     MethodInfoNew(<< "o", Dot, "list" >>, << "A method of another namespace" >>) >>

\* a service of which every handler has an instance of its own
CallCountAfter_OwnInstance(count) == 1

\* the service counts the calls of its dispatch, as TestService does with
\* call_count.fetch_add(1)
CallCountAfter(count) == count + 1

\* the start.elapsed() readings a response can carry
ElapsedMs == { 0 }

(***************************************************************************)
(* server.rs: routing inside handle_connection_static.                     *)
(***************************************************************************)
\* format!("{}.", service.name())
ServicePrefix(name) == name \o << Dot >>

IsNamespacedForService(name, method) == StartsWith(method, ServicePrefix(name))

\* the `action` of a request: the method without the service prefix
ActionOf(name, method) ==
  IF IsNamespacedForService(name, method)
    THEN StrFrom(method, Len(ServicePrefix(name)))
    ELSE method

\* a variant that lets every version through
VersionMismatch_Never(req) == FALSE

\* does the request differ from the supported protocol version?
VersionMismatch(req) == req.v # PROTOCOL_VERSION

\* a variant that knows the built-ins by their bare names only
Route_BareBuiltins(name, method) ==
  LET ns == IsNamespacedForService(name, method)
  IN  IF method = Health THEN "health"
      ELSE IF method = Stop THEN "stop"
      ELSE IF method = Methods THEN "methods"
      ELSE IF Contains(method, Dot) /\ ~ ns THEN "mismatch"
      ELSE "dispatch"

\* the arm of `match action` a method takes
Route(name, method) ==
  LET ns == IsNamespacedForService(name, method)
      action == ActionOf(name, method)
  IN  IF action = Health /\ (method = Health \/ ns) THEN "health"
      ELSE IF action = Stop /\ (method = Stop \/ ns) THEN "stop"
      ELSE IF action = Methods /\ (method = Methods \/ ns) THEN "methods"
      ELSE IF Contains(method, Dot) /\ ~ ns THEN "mismatch"
      ELSE "dispatch"

\* a variant that hands the method on as it came
DispatchMethod_AsReceived(name, method) == method

\* the fully-qualified method name handed to dispatch
DispatchMethod(name, method) ==
  IF IsNamespacedForService(name, method) THEN method
  ELSE IF Contains(method, Dot) THEN method
  ELSE ServicePrefix(name) \o method

\* the response to a line that does not decode
ParseFailureResponse(e, ms) ==
  ResponseError(<< "null" >>, INVALID_REQUEST,
                << "Failed to parse request: " >> \o e, ms)

\* a variant that answers with the id of an undecodable line
VersionMismatchResponse_NullId(req, ms) ==
  ResponseError(<< "null" >>, INVALID_REQUEST,
                << "Unsupported protocol version: ", ToString(req.v),
                   " (expected ", ToString(PROTOCOL_VERSION), ")" >>, ms)

\* the response to a request of another protocol version
VersionMismatchResponse(req, ms) ==
  ResponseError(req.id, INVALID_REQUEST,
                << "Unsupported protocol version: ", ToString(req.v),
                   " (expected ", ToString(PROTOCOL_VERSION), ")" >>, ms)

\* a variant that reports another namespace as UNKNOWN_METHOD
NamespaceMismatchResponse_UnknownMethod(name, req, ms) ==
  ResponseError(req.id, UNKNOWN_METHOD,
                << "Method namespace must match service '" >> \o name
                   \o << "': got '" >> \o req.method \o << "'" >>, ms)

\* the response to a method of another service's namespace
NamespaceMismatchResponse(name, req, ms) ==
  ResponseError(req.id, INVALID_REQUEST,
                << "Method namespace must match service '" >> \o name
                   \o << "': got '" >> \o req.method \o << "'" >>, ms)

\* the response to the stop built-in
StopResponse(req, ms) ==
  ResponseSuccess(req.id, JObj([message |-> JStr(<< "Shutting down" >>)]), ms)

\* a variant that reports a failed dispatch as UNKNOWN_METHOD
DispatchResponse_UnknownMethod(req, outcome, ms) ==
  IF IsOk(outcome)
    THEN ResponseSuccess(req.id, outcome[2], ms)
    ELSE ResponseError(req.id, UNKNOWN_METHOD, outcome[2], ms)

\* the response made from what dispatch returned
DispatchResponse(req, outcome, ms) ==
  IF IsOk(outcome)
    THEN ResponseSuccess(req.id, outcome[2], ms)
    ELSE ResponseError(req.id, INTERNAL_ERROR, outcome[2], ms)

\* handle_health_static: the overall status of a health_check() map
\* a status that looks for one healthy entry only
HealthStatusOf_AnyOk(services) ==
  IF \E k \in DOMAIN services : services[k].ok THEN << "healthy" >> ELSE << "unhealthy" >>

HealthStatusOf(services) ==
  IF \A k \in DOMAIN services : services[k].ok THEN << "healthy" >>
  ELSE IF \E k \in DOMAIN services : services[k].ok THEN << "degraded" >>
  ELSE IF DOMAIN services = {} THEN << "healthy" >>
  ELSE << "unhealthy" >>

\* impl Serialize for HealthStatus, as a Value
HealthStatusValue(h) ==
  JObj([k \in {"ok"} \cup (IF IsSome(h.message) THEN {"message"} ELSE {}) |->
          IF k = "ok" THEN JBool(h.ok) ELSE JStr(Unwrap(h.message))])

\* handle_health_static; pid, started_at and uptime are readings of the
\* environment, fixed here
HandleHealth(req, services, ms) ==
  ResponseSuccess(req.id,
    JObj([status |-> JStr(HealthStatusOf(services)),
          pid |-> JNum(1),
          started_at |-> JStr(<< "2026-01-14T00:00:00Z" >>),
          version |-> JStr(ServiceVersion),
          uptime_seconds |-> JNum(0),
          services |-> JObj([k \in DOMAIN services |-> HealthStatusValue(services[k])])]),
    ms)

\* impl Serialize for MethodInfo, as a Value
MethodInfoValue(mi) ==
  JObj([name |-> JStr(mi.name), description |-> JStr(mi.description),
        params |-> JArr(<< >>), deprecated |-> JBool(FALSE)])

BuiltinMethodInfos ==
  << MethodInfoNew(Health, << "Returns daemon health and status" >>),
     MethodInfoNew(Stop, << "Gracefully shuts down the daemon" >>),
     MethodInfoNew(Methods, << "Lists available methods" >>) >>

\* a loop that prefixes every name that does not start with the prefix
PrefixMethodInfo_UnlessOwn(name, mi) ==
  IF ~ StartsWith(mi.name, ServicePrefix(name))
    THEN [mi EXCEPT !.name = ServicePrefix(name) \o mi.name]
    ELSE mi

\* the loop of handle_methods_static over service.method_list()
PrefixMethodInfo(name, mi) ==
  IF ~ Contains(mi.name, Dot)
    THEN [mi EXCEPT !.name = ServicePrefix(name) \o mi.name]
    ELSE mi

\* handle_methods_static
HandleMethods(name, req, ms) ==
  LET custom == ServiceMethodList(name)
      all == BuiltinMethodInfos \o [i \in DOMAIN custom |-> PrefixMethodInfo(name, custom[i])]
  IN  ResponseSuccess(req.id,
        JObj([methods |-> JArr([i \in DOMAIN all |-> MethodInfoValue(all[i])])]), ms)

(***************************************************************************)
(* What clients send.                                                      *)
(***************************************************************************)
Conns == 1..NumConns

Obj3(id, v, method) == JObj([id |-> id, v |-> v, method |-> method])

\* lines that do not decode as a Request
MalformedLines ==
  { BytesLine,
    TextLine(Garbage),
    TextLine(JNum(3)),
    TextLine(JObj([v |-> JNum(1), method |-> JStr(Health)])),
    TextLine(Obj3(JNum(5), JNum(1), JStr(Health))),
    TextLine(Obj3(JStr(<< "9" >>), JNum(U8Max + 1), JStr(Stop))) }

\* the methods clients ask for, for a service named name
ClientMethods(name) ==
  { Health, Stop, Methods,
    ServicePrefix(name) \o Health, ServicePrefix(name) \o Stop,
    ServicePrefix(name) \o Methods,
    << "add" >>, ServicePrefix(name) \o << "add" >>,
    << "o", Dot, "add" >>, << "o", Dot, "stop" >> }

\* lines that decode as a Request
RequestLines(name) ==
  { RequestToNdjsonLine(MkRequest(<< "7" >>, PROTOCOL_VERSION, m, EmptyMap)) :
      m \in ClientMethods(name) }
  \cup
  { RequestToNdjsonLine(MkRequest(<< "8" >>, 2, m, EmptyMap)) :
      m \in { Health, Stop, << "add" >> } }
  \cup
  { RequestToNdjsonLine(MkRequest(<< "null" >>, PROTOCOL_VERSION, << "add" >>,
                                  [a |-> JNum(17), b |-> JStr(<< "x", Newline >>)])),
    TextLine(Obj3(JStr(<< "u", Backslash, "n" >>), JNum(1), JStr(<< "add" >>))) }

ClientLines(name) == { BlankLine } \cup MalformedLines \cup RequestLines(name)

\* the lines of the other clients: a stop request, a request for the
\* service and a line that is not JSON
OtherLines ==
  { RequestToNdjsonLine(MkRequest(<< "21" >>, PROTOCOL_VERSION, Stop, EmptyMap)),
    RequestToNdjsonLine(MkRequest(<< "22" >>, PROTOCOL_VERSION, << "add" >>, EmptyMap)),
    TextLine(Garbage) }

\* the first client sends any line, the others send OtherLines
LinesOf(name, c) == IF c = 1 THEN ClientLines(name) ELSE OtherLines

(***************************************************************************)
(* State.                                                                  *)
(***************************************************************************)
VARIABLES
  svcName,    \* service.name()
  running,    \* FgpServer.running
  servePc,    \* where serve() is
  sockFile,   \* what is at socket_path: "absent", "stale" or "socket"
  sockMode,   \* permissions of the socket file: "default" or "0600"
  listener,   \* TRUE while the UnixListener of serve() exists
  backlog,    \* connections made and not yet taken by the accept loop
  conn,       \* client end of each connection: "idle", "connected", "closed"
  inbuf,      \* lines sent on each connection and not yet read
  sent,       \* number of lines clients have sent
  hpc,        \* where the handler of each connection is
  cur,        \* the handler's locals for the line it is processing
  nread,      \* number of non-blank lines each handler has taken
  nwritten,   \* number of response lines each handler has written
  last,       \* the response line each handler has just written, with its
              \* request, until the handler takes its next line
  prevKind,   \* how the line before the current one was answered
  onStart,    \* results of the calls of service.on_start(), in order
  onStop,     \* results of the calls of service.on_stop(), in order
  alive,      \* TRUE while the process that called serve() exists
  callCount,  \* state of the one service instance: the calls of dispatch
  rt,         \* the round trip of a message through the codec
  cl,         \* an FgpClient, the call it is making and the daemon it talks to
  lc,         \* a call of lifecycle::stop_service and the files and processes
              \* of the service it stops
  stopBeforeRun,  \* FgpServer::stop() was called before serve() stored true
  other       \* another FgpServer that serves the same socket path: "none",
              \* "listening" or "stopped"

vars == << svcName, running, servePc, sockFile, sockMode, listener, backlog,
           conn, inbuf, sent, hpc, cur, nread, nwritten, last, prevKind,
           onStart, onStop, alive, callCount, rt, cl, lc, stopBeforeRun, other >>

serverVars == << svcName, running, servePc, sockFile, sockMode, listener,
                 backlog, conn, inbuf, sent, hpc, cur, nread, nwritten, last, prevKind,
                 onStart, onStop, alive, callCount >>

NoCur ==
  [n |-> 0, line |-> BlankLine, kind |-> "idle", prev |-> "none", req |-> None,
   dmethod |-> None, outcome |-> None, resp |-> None, fx |-> {}]

\* no response written yet
NoEntry ==
  [n |-> 0, line |-> BlankLine, kind |-> "idle", prev |-> "none", req |-> None,
   dmethod |-> None, outcome |-> None, fx |-> {}, resp |-> None, wire |-> BlankLine]

RtOff == [pc |-> "off", kind |-> "none", x |-> None, line |-> BlankLine, y |-> None]

\* no client
ClOff ==
  [pc |-> "off", auto |-> None, samePath |-> TRUE, timeout |-> "30s",
   sock |-> "absent", calls |-> 0, streams |-> 0, stream |-> 0, used |-> {},
   method |-> << >>, params |-> JNull, req |-> None, e |-> None, log |-> << >>,
   wrote |-> << >>, got |-> None, result |-> None, api |-> "call",
   ret |-> None]

\* no call of stop_service
LcOff ==
  [pc |-> "off", sock |-> "absent", pidFile |-> "absent", pidContent |-> None,
   comm |-> None, manifest |-> "missing", acked |-> FALSE, signals |-> 0,
   removed |-> {}, exited |-> FALSE, result |-> None]

\* FgpServer::new
ServerInit ==
  /\ svcName \in ServiceNames
  /\ running = FALSE
  /\ servePc = "new"
  /\ sockFile \in { "absent", "stale" }
  /\ sockMode = "default"
  /\ listener = FALSE
  /\ backlog = << >>
  /\ conn = [c \in Conns |-> "idle"]
  /\ inbuf = [c \in Conns |-> << >>]
  /\ sent = 0
  /\ hpc = [c \in Conns |-> "none"]
  /\ cur = [c \in Conns |-> NoCur]
  /\ nread = [c \in Conns |-> 0]
  /\ nwritten = [c \in Conns |-> 0]
  /\ last = [c \in Conns |-> NoEntry]
  /\ prevKind = [c \in Conns |-> "none"]
  /\ onStart = << >>
  /\ onStop = << >>
  /\ alive = TRUE
  /\ callCount = 0

Init ==
  /\ ServerInit
  /\ rt = RtOff /\ cl = ClOff /\ lc = LcOff
  /\ stopBeforeRun = FALSE /\ other = "none"

(***************************************************************************)
(* server.rs: FgpServer::serve and FgpServer::stop.                        *)
(***************************************************************************)
\* what a lifecycle hook or a file-system call returns
HookResults == { "Ok", "Err" }

\* on_start whose failure is ignored
ServeOnStart_IgnoresFailure ==
  /\ servePc = "new"
  /\ \E r \in HookResults :
       /\ onStart' = Append(onStart, r)
       /\ servePc' = "started"
  /\ UNCHANGED << svcName, cl, lc, stopBeforeRun, other, callCount, alive, onStop, running, sockFile, sockMode, listener, backlog,
                  conn, inbuf, sent, hpc, cur, nread, nwritten, last, prevKind, rt >>

\* self.service.on_start()?: a failure is returned by serve() at once
ServeOnStart ==
  /\ servePc = "new"
  /\ \E r \in HookResults :
       /\ onStart' = Append(onStart, r)
       /\ servePc' = IF r = "Ok" THEN "started" ELSE "start_failed"
  /\ UNCHANGED << svcName, cl, lc, stopBeforeRun, other, callCount, alive, onStop, running, sockFile, sockMode, listener, backlog,
                  conn, inbuf, sent, hpc, cur, nread, nwritten, last, prevKind, rt >>

\* a serve() that leaves what is at the socket path
ServeRemoveStale_KeepsFile ==
  /\ servePc = "started"
  /\ servePc' = "cleaned"
  /\ UNCHANGED << svcName, cl, lc, stopBeforeRun, other, callCount, alive, onStart, onStop, running, sockFile, sockMode,
                  listener, backlog,
                  conn, inbuf, sent, hpc, cur, nread, nwritten, last, prevKind, rt >>

\* let _ = std::fs::remove_file(&self.socket_path)
ServeRemoveStale ==
  /\ servePc = "started"
  /\ servePc' = "cleaned"
  /\ sockFile' = "absent"
  /\ UNCHANGED << svcName, cl, lc, stopBeforeRun, other, callCount, alive, onStart, onStop, running, sockMode, listener, backlog,
                  conn, inbuf, sent, hpc, cur, nread, nwritten, last, prevKind, rt >>

\* a serve() that stores running = true as soon as the socket is bound
ServeBind_StoresRunning ==
  /\ servePc = "cleaned"
  /\ \E r \in (IF sockFile = "absent" THEN HookResults ELSE { "Err" }) :
       IF r = "Ok"
         THEN /\ servePc' = "bound"
              /\ sockFile' = "socket"
              /\ sockMode' = "default"
              /\ listener' = TRUE
              /\ running' = TRUE
         ELSE /\ servePc' = "bind_failed"
              /\ UNCHANGED << sockFile, sockMode, listener, running >>
  /\ UNCHANGED << svcName, cl, lc, stopBeforeRun, other, callCount, alive, onStart, onStop, backlog,
                  conn, inbuf, sent, hpc, cur, nread, nwritten, last, prevKind, rt >>

\* UnixListener::bind(&self.socket_path)?: the socket file is created with
\* the permissions the umask leaves and the socket listens from here on;
\* bind fails when there is a file at the path, and can fail otherwise; a
\* failure is returned by serve()
ServeBind ==
  /\ servePc = "cleaned"
  /\ \E r \in (IF sockFile = "absent" THEN HookResults ELSE { "Err" }) :
       IF r = "Ok"
         THEN /\ servePc' = "bound"
              /\ sockFile' = "socket"
              /\ sockMode' = "default"
              /\ listener' = TRUE
         ELSE /\ servePc' = "bind_failed"
              /\ UNCHANGED << sockFile, sockMode, listener >>
  /\ UNCHANGED << svcName, cl, lc, stopBeforeRun, other, callCount, alive, onStart, onStop, running, backlog,
                  conn, inbuf, sent, hpc, cur, nread, nwritten, last, prevKind, rt >>

\* a serve() that calls on_stop when set_permissions has failed
ServeSetPermissions_CallsOnStop ==
  /\ servePc = "bound"
  /\ \E r \in HookResults :
       IF r = "Ok"
         THEN /\ servePc' = "restricted"
              /\ sockMode' = "0600"
              /\ UNCHANGED << listener, onStop >>
         ELSE /\ servePc' = "perm_failed"
              /\ listener' = FALSE
              /\ onStop' = Append(onStop, "Ok")
              /\ UNCHANGED sockMode
  /\ UNCHANGED << svcName, cl, lc, stopBeforeRun, other, callCount, alive, onStart, running, sockFile, backlog,
                  conn, inbuf, sent, hpc, cur, nread, nwritten, last, prevKind, rt >>

\* std::fs::set_permissions(&self.socket_path, from_mode(0o600))?: on a
\* failure serve() returns, which drops the listener and leaves the file
ServeSetPermissions ==
  /\ servePc = "bound"
  /\ \E r \in HookResults :
       IF r = "Ok"
         THEN /\ servePc' = "restricted"
              /\ sockMode' = "0600"
              /\ UNCHANGED listener
         ELSE /\ servePc' = "perm_failed"
              /\ listener' = FALSE
              /\ UNCHANGED sockMode
  /\ UNCHANGED << svcName, cl, lc, stopBeforeRun, other, callCount, alive, onStart, onStop, running, sockFile, backlog,
                  conn, inbuf, sent, hpc, cur, nread, nwritten, last, prevKind, rt >>

\* a serve() that does not start its accept loop with the flag set when
\* stop() has been called already
ServeSetRunning_HonoursStop ==
  /\ servePc = "restricted"
  /\ servePc' = "accepting"
  /\ running' = ~ stopBeforeRun
  /\ UNCHANGED << svcName, cl, lc, stopBeforeRun, other, callCount, alive, onStart, onStop, sockFile, sockMode, listener, backlog,
                  conn, inbuf, sent, hpc, cur, nread, nwritten, last, prevKind, rt >>

\* self.running.store(true, Ordering::SeqCst)
ServeSetRunning ==
  /\ servePc = "restricted"
  /\ servePc' = "accepting"
  /\ running' = TRUE
  /\ UNCHANGED << svcName, cl, lc, stopBeforeRun, other, callCount, alive, onStart, onStop, sockFile, sockMode, listener, backlog,
                  conn, inbuf, sent, hpc, cur, nread, nwritten, last, prevKind, rt >>

\* an accept loop that handles a connection to its end before it takes the
\* next one
ServeAccept_Sequential ==
  /\ servePc = "accepting"
  /\ backlog # << >>
  /\ \A d \in Conns : hpc[d] \notin { "read", "dispatch", "write", "check" }
  /\ LET c == Head(backlog) IN
       /\ backlog' = Tail(backlog)
       /\ IF ~ running
            THEN /\ servePc' = "exited"
                 /\ hpc' = [hpc EXCEPT ![c] = "dropped"]
            ELSE /\ servePc' = servePc
                 /\ hpc' = [hpc EXCEPT ![c] = "read"]
  /\ UNCHANGED << svcName, cl, lc, stopBeforeRun, other, callCount, alive, onStart, onStop, running, sockFile, sockMode, listener,
                  conn, inbuf, sent, cur, nread, nwritten, last, prevKind, rt >>

\* one turn of `for stream in listener.incoming()`: the next connection is
\* taken, then the running flag is looked at; the stream is dropped when
\* the loop breaks, and handed to a new thread otherwise
ServeAccept ==
  /\ servePc = "accepting"
  /\ backlog # << >>
  /\ LET c == Head(backlog) IN
       /\ backlog' = Tail(backlog)
       /\ IF ~ running
            THEN /\ servePc' = "exited"
                 /\ hpc' = [hpc EXCEPT ![c] = "dropped"]
            ELSE /\ servePc' = servePc
                 /\ hpc' = [hpc EXCEPT ![c] = "read"]
  /\ UNCHANGED << svcName, cl, lc, stopBeforeRun, other, callCount, alive, onStart, onStop, running, sockFile, sockMode, listener,
                  conn, inbuf, sent, cur, nread, nwritten, last, prevKind, rt >>

\* on_stop whose failure is returned by serve()
ServeOnStop_Propagates ==
  /\ servePc = "exited"
  /\ \E r \in HookResults :
       /\ onStop' = Append(onStop, r)
       /\ servePc' = IF r = "Ok" THEN "hooked" ELSE "stop_failed"
  /\ UNCHANGED << svcName, cl, lc, stopBeforeRun, other, callCount, alive, onStart, running, sockFile, sockMode, listener, backlog,
                  conn, inbuf, sent, hpc, cur, nread, nwritten, last, prevKind, rt >>

\* a serve() that joins its handler threads before it calls on_stop
ServeOnStop_JoinsWorkers ==
  /\ servePc = "exited"
  /\ \A c \in Conns : hpc[c] \notin { "read", "dispatch", "write", "check" }
  /\ \E r \in HookResults : onStop' = Append(onStop, r)
  /\ servePc' = "hooked"
  /\ UNCHANGED << svcName, cl, lc, stopBeforeRun, other, callCount, alive, onStart, running, sockFile, sockMode, listener, backlog,
                  conn, inbuf, sent, hpc, cur, nread, nwritten, last, prevKind, rt >>

\* let _ = self.service.on_stop(): the result is discarded
ServeOnStop ==
  /\ servePc = "exited"
  /\ \E r \in HookResults : onStop' = Append(onStop, r)
  /\ servePc' = "hooked"
  /\ UNCHANGED << svcName, cl, lc, stopBeforeRun, other, callCount, alive, onStart, running, sockFile, sockMode, listener, backlog,
                  conn, inbuf, sent, hpc, cur, nread, nwritten, last, prevKind, rt >>

\* let _ = std::fs::remove_file(&self.socket_path); Ok(()) - the listener
\* is dropped when serve() returns
ServeCleanup ==
  /\ servePc = "hooked"
  /\ servePc' = "returned"
  /\ sockFile' = "absent"
  /\ listener' = FALSE
  /\ UNCHANGED << svcName, cl, lc, stopBeforeRun, other, callCount, alive, onStart, onStop, running, sockMode, backlog,
                  conn, inbuf, sent, hpc, cur, nread, nwritten, last, prevKind, rt >>

\* FgpServer::stop
ServerStop ==
  /\ running
  /\ running' = FALSE
  /\ UNCHANGED << svcName, cl, lc, stopBeforeRun, other, callCount, alive, onStart, onStop, servePc, sockFile, sockMode, listener, backlog,
                  conn, inbuf, sent, hpc, cur, nread, nwritten, last, prevKind, rt >>

\* how serve() can have returned: Ok, or the failure of on_start, of bind
\* or of set_permissions
ServeReturned == { "returned", "start_failed", "bind_failed", "perm_failed" }

\* main returns once serve() has returned: the process exits, and with it
\* every handler thread, which serve() spawned and never joins
ProcessExit ==
  /\ alive
  /\ servePc \in ServeReturned
  /\ alive' = FALSE
  /\ UNCHANGED << svcName, cl, lc, stopBeforeRun, other, callCount, onStart, onStop, running, servePc, sockFile, sockMode, listener,
                  backlog, conn, inbuf, sent, hpc, cur, nread, nwritten, last, prevKind, rt >>

(***************************************************************************)
(* Clients of the socket.                                                  *)
(***************************************************************************)
\* UnixStream::connect succeeds while a listener is bound at the path
ClientConnect(c) ==
  /\ conn[c] = "idle"
  /\ sockFile = "socket" /\ listener
  /\ conn' = [conn EXCEPT ![c] = "connected"]
  /\ backlog' = Append(backlog, c)
  /\ UNCHANGED << svcName, cl, lc, stopBeforeRun, other, callCount, alive, onStart, onStop, running, servePc, sockFile, sockMode, listener,
                  inbuf, sent, hpc, cur, nread, nwritten, last, prevKind, rt >>

\* the client writes one line
ClientSend(c) ==
  /\ alive
  /\ conn[c] = "connected"
  /\ sent < MaxLines
  /\ \E l \in LinesOf(svcName, c) : inbuf' = [inbuf EXCEPT ![c] = Append(@, l)]
  /\ sent' = sent + 1
  /\ UNCHANGED << svcName, cl, lc, stopBeforeRun, other, callCount, alive, onStart, onStop, running, servePc, sockFile, sockMode, listener,
                  backlog, conn, hpc, cur, nread, nwritten, last, prevKind, rt >>

\* the client closes its end
ClientClose(c) ==
  /\ alive
  /\ conn[c] = "connected"
  /\ conn' = [conn EXCEPT ![c] = "closed"]
  /\ UNCHANGED << svcName, cl, lc, stopBeforeRun, other, callCount, alive, onStart, onStop, running, servePc, sockFile, sockMode, listener,
                  backlog, inbuf, sent, hpc, cur, nread, nwritten, last, prevKind, rt >>

(***************************************************************************)
(* server.rs: FgpServer::handle_connection_static, one thread per          *)
(* connection.  hpc is "read" at reader.read_line, "dispatch" inside       *)
(* service.dispatch, "write" before write_all and flush of the response,   *)
(* "check" at the running.load that follows the write, and after the       *)
(* handler has returned: "eof", "shutdown", "read_error" or "write_error". *)
(***************************************************************************)
\* what the handler does with a line of text up to the response or the
\* call of dispatch; ms and services are the clock reading and the
\* health_check() map it would use
Process(name, n, prev, line, services, ms) ==
  LET parsed == RequestFromNdjsonLine(line)
      req == parsed[2]
      base == [NoCur EXCEPT !.n = n, !.prev = prev, !.line = line]
  IN  IF IsErr(parsed)
        THEN [base EXCEPT !.kind = "parse_error",
                          !.resp = Some(ParseFailureResponse(parsed[2], ms))]
      ELSE IF VersionMismatch(req)
        THEN [base EXCEPT !.kind = "version", !.req = Some(req),
                          !.resp = Some(VersionMismatchResponse(req, ms))]
      ELSE LET route == Route(name, req.method) IN
        CASE route = "health" ->
               [base EXCEPT !.kind = "health", !.req = Some(req),
                            !.fx = { "health_check" },
                            !.resp = Some(HandleHealth(req, services, ms))]
          [] route = "stop" ->
               [base EXCEPT !.kind = "stop", !.req = Some(req),
                            !.fx = { "stop" },
                            !.resp = Some(StopResponse(req, ms))]
          [] route = "methods" ->
               [base EXCEPT !.kind = "methods", !.req = Some(req),
                            !.fx = { "method_list" },
                            !.resp = Some(HandleMethods(name, req, ms))]
          [] route = "mismatch" ->
               [base EXCEPT !.kind = "mismatch", !.req = Some(req),
                            !.resp = Some(NamespaceMismatchResponse(name, req, ms))]
          [] route = "dispatch" ->
               [base EXCEPT !.kind = "dispatch", !.req = Some(req),
                            !.fx = { "dispatch" },
                            !.dmethod = Some(DispatchMethod(name, req.method))]

\* reader.read_line returns a line: a line that is not UTF-8 is an error
\* that ends the handler, a blank line is skipped, any other line is
\* decoded and routed
HandlerReadLine(c) ==
  /\ alive
  /\ hpc[c] = "read"
  /\ inbuf[c] # << >>
  /\ LET l == Head(inbuf[c]) IN
       /\ inbuf' = [inbuf EXCEPT ![c] = Tail(@)]
       /\ IF LineKind(l) = "bytes"
            THEN /\ hpc' = [hpc EXCEPT ![c] = "read_error"]
                 /\ nread' = [nread EXCEPT ![c] = @ + 1]
                 /\ last' = [last EXCEPT ![c] = NoEntry]
                 /\ UNCHANGED << cur, running, callCount >>
          ELSE IF LineKind(l) = "blank"
            THEN UNCHANGED << hpc, cur, running, nread, last, callCount >>
          ELSE \E services \in HealthMaps, ms \in ElapsedMs :
                 LET p == Process(svcName, nread[c] + 1, prevKind[c], l, services, ms) IN
                   /\ nread' = [nread EXCEPT ![c] = @ + 1]
                   /\ last' = [last EXCEPT ![c] = NoEntry]
                   /\ cur' = [cur EXCEPT ![c] = p]
                   /\ hpc' = [hpc EXCEPT ![c] =
                                IF p.kind = "dispatch" THEN "dispatch" ELSE "write"]
                   /\ running' = IF "stop" \in p.fx THEN FALSE ELSE running
                   /\ callCount' = IF "dispatch" \in p.fx
                                     THEN CallCountAfter(callCount)
                                     ELSE callCount
  /\ UNCHANGED << svcName, cl, lc, stopBeforeRun, other, alive, onStart, onStop, servePc, sockFile, sockMode, listener, backlog,
                  conn, sent, nwritten, prevKind, rt >>

\* a handler that takes the whole server down when its client disconnects
HandlerEof_StopsServer(c) ==
  /\ alive
  /\ hpc[c] = "read"
  /\ inbuf[c] = << >>
  /\ conn[c] = "closed"
  /\ hpc' = [hpc EXCEPT ![c] = "eof"]
  /\ running' = FALSE
  /\ UNCHANGED << svcName, cl, lc, stopBeforeRun, other, callCount, alive, onStart, onStop, servePc, sockFile, sockMode,
                  listener, backlog, conn, inbuf, sent, cur, nread, nwritten, last,
                  prevKind, rt >>

\* reader.read_line returns 0 bytes: the client has disconnected
HandlerEof(c) ==
  /\ alive
  /\ hpc[c] = "read"
  /\ inbuf[c] = << >>
  /\ conn[c] = "closed"
  /\ hpc' = [hpc EXCEPT ![c] = "eof"]
  /\ UNCHANGED << svcName, cl, lc, stopBeforeRun, other, callCount, alive, onStart, onStop, running, servePc, sockFile, sockMode, listener,
                  backlog, conn, inbuf, sent, cur, nread, nwritten, last, prevKind, rt >>

\* a dispatch that is given up when the running flag is found cleared
HandlerDispatchReturn_AbortOnStop(c) ==
  /\ alive
  /\ hpc[c] = "dispatch"
  /\ IF running
       THEN /\ \E outcome \in DispatchOutcomes, ms \in ElapsedMs :
                 cur' = [cur EXCEPT ![c].outcome = Some(outcome),
                                    ![c].resp =
                                      Some(DispatchResponse(Unwrap(cur[c].req), outcome, ms))]
            /\ hpc' = [hpc EXCEPT ![c] = "write"]
       ELSE /\ cur' = [cur EXCEPT ![c] = NoCur]
            /\ hpc' = [hpc EXCEPT ![c] = "shutdown"]
  /\ UNCHANGED << svcName, cl, lc, stopBeforeRun, other, callCount, alive, onStart, onStop, running, servePc, sockFile, sockMode, listener,
                  backlog, conn, inbuf, sent, nread, nwritten, last, prevKind, rt >>

\* a dispatch whose response is made from a request slot that the handlers
\* share
HandlerDispatchReturn_SharedRequest(c) ==
  /\ alive
  /\ hpc[c] = "dispatch"
  /\ LET d == IF \E x \in Conns \ { c } : IsSome(cur[x].req)
                THEN CHOOSE x \in Conns \ { c } : IsSome(cur[x].req)
                ELSE c
     IN \E outcome \in DispatchOutcomes, ms \in ElapsedMs :
          cur' = [cur EXCEPT ![c].outcome = Some(outcome),
                             ![c].resp =
                               Some(DispatchResponse(Unwrap(cur[d].req), outcome, ms))]
  /\ hpc' = [hpc EXCEPT ![c] = "write"]
  /\ UNCHANGED << svcName, cl, lc, stopBeforeRun, other, callCount, alive, onStart, onStop, running, servePc, sockFile, sockMode, listener,
                  backlog, conn, inbuf, sent, nread, nwritten, last, prevKind, rt >>

\* service.dispatch returns
HandlerDispatchReturn(c) ==
  /\ alive
  /\ hpc[c] = "dispatch"
  /\ \E outcome \in DispatchOutcomes, ms \in ElapsedMs :
       cur' = [cur EXCEPT ![c].outcome = Some(outcome),
                          ![c].resp =
                            Some(DispatchResponse(Unwrap(cur[c].req), outcome, ms))]
  /\ hpc' = [hpc EXCEPT ![c] = "write"]
  /\ UNCHANGED << svcName, cl, lc, stopBeforeRun, other, callCount, alive, onStart, onStop, running, servePc, sockFile, sockMode, listener,
                  backlog, conn, inbuf, sent, nread, nwritten, last, prevKind, rt >>

\* a loop that goes on with `continue` after a stop acknowledgment too
ContinuesAfter_Stop(kind) == kind \in { "parse_error", "version", "stop" }

\* after which responses the loop goes on with `continue`
ContinuesAfter(kind) == kind \in { "parse_error", "version" }

\* response.to_ndjson_line()?, writer.write_all(..)?, writer.flush()?: the
\* write fails when the client has closed its end
HandlerWrite(c) ==
  /\ alive
  /\ hpc[c] = "write"
  /\ cur' = [cur EXCEPT ![c] = NoCur]
  /\ IF conn[c] = "closed"
       THEN /\ hpc' = [hpc EXCEPT ![c] = "write_error"]
            /\ UNCHANGED << nwritten, last, prevKind >>
       ELSE /\ nwritten' = [nwritten EXCEPT ![c] = @ + 1]
            /\ prevKind' = [prevKind EXCEPT ![c] = cur[c].kind]
            /\ last' = [last EXCEPT ![c] =
                         [n |-> cur[c].n,
                          line |-> cur[c].line,
                          kind |-> cur[c].kind,
                          prev |-> cur[c].prev,
                          req |-> cur[c].req,
                          dmethod |-> cur[c].dmethod,
                          outcome |-> cur[c].outcome,
                          fx |-> cur[c].fx,
                          resp |-> cur[c].resp,
                          wire |-> ResponseToNdjsonLine(Unwrap(cur[c].resp))]]
            /\ hpc' = [hpc EXCEPT ![c] =
                         IF ContinuesAfter(cur[c].kind) THEN "read" ELSE "check"]
  /\ UNCHANGED << svcName, cl, lc, stopBeforeRun, other, callCount, alive, onStart, onStop, running, servePc, sockFile, sockMode, listener,
                  backlog, conn, inbuf, sent, nread, rt >>

\* if !running.load(Ordering::SeqCst) { break; }
HandlerCheckRunning(c) ==
  /\ alive
  /\ hpc[c] = "check"
  /\ hpc' = [hpc EXCEPT ![c] = IF running THEN "read" ELSE "shutdown"]
  /\ UNCHANGED << svcName, cl, lc, stopBeforeRun, other, callCount, alive, onStart, onStop, running, servePc, sockFile, sockMode, listener,
                  backlog, conn, inbuf, sent, cur, nread, nwritten, last, prevKind, rt >>

Next ==
  \/ ServeOnStart
  \/ ServeRemoveStale
  \/ ServeBind
  \/ ServeSetPermissions
  \/ ServeSetRunning
  \/ ServeAccept
  \/ ServeOnStop
  \/ ServeCleanup
  \/ ServerStop
  \/ ProcessExit
  \/ \E c \in Conns : ClientConnect(c)
  \/ \E c \in Conns : ClientSend(c)
  \/ \E c \in Conns : ClientClose(c)
  \/ \E c \in Conns : HandlerReadLine(c)
  \/ \E c \in Conns : HandlerEof(c)
  \/ \E c \in Conns : HandlerDispatchReturn(c)
  \/ \E c \in Conns : HandlerWrite(c)
  \/ \E c \in Conns : HandlerCheckRunning(c)

Spec == Init /\ [][Next]_vars

\* the connection whose service call may take for ever
SlowConn == 1

\* the steps of serve()
ServeStep ==
  \/ ServeOnStart
  \/ ServeRemoveStale
  \/ ServeBind
  \/ ServeSetPermissions
  \/ ServeSetRunning
  \/ ServeAccept
  \/ ServeOnStop
  \/ ServeCleanup

\* the steps of the thread that handles c, the service call left out
HandlerStep(c) ==
  \/ HandlerReadLine(c)
  \/ HandlerEof(c)
  \/ HandlerWrite(c)
  \/ HandlerCheckRunning(c)

\* the requests of the clients where progress is looked at: a stop request
\* and a request for the service
LiveLines ==
  { RequestToNdjsonLine(MkRequest(<< "21" >>, PROTOCOL_VERSION, Stop, EmptyMap)),
    RequestToNdjsonLine(MkRequest(<< "22" >>, PROTOCOL_VERSION, << "add" >>, EmptyMap)) }

\* the client writes one of these requests
ClientSendRequest(c) ==
  /\ alive
  /\ conn[c] = "connected"
  /\ sent < MaxLines
  /\ \E l \in LiveLines : inbuf' = [inbuf EXCEPT ![c] = Append(@, l)]
  /\ sent' = sent + 1
  /\ UNCHANGED << svcName, cl, lc, stopBeforeRun, other, callCount, alive, onStart, onStop, running, servePc, sockFile, sockMode, listener,
                  backlog, conn, hpc, cur, nread, nwritten, last, prevKind, rt >>

LiveInit == Init /\ svcName = << "t" >> /\ sockFile = "absent"

LiveNext ==
  \/ ServeOnStart
  \/ ServeRemoveStale
  \/ ServeBind
  \/ ServeSetPermissions
  \/ ServeSetRunning
  \/ ServeAccept
  \/ ServeOnStop
  \/ ServeCleanup
  \/ ServerStop
  \/ ProcessExit
  \/ \E c \in Conns : ClientConnect(c)
  \/ \E c \in Conns : ClientSendRequest(c)
  \/ \E c \in Conns : ClientClose(c)
  \/ \E c \in Conns : HandlerReadLine(c)
  \/ \E c \in Conns : HandlerEof(c)
  \/ \E c \in Conns : HandlerDispatchReturn(c)
  \/ \E c \in Conns : HandlerWrite(c)
  \/ \E c \in Conns : HandlerCheckRunning(c)

\* the threads of the server are scheduled fairly: serve() and every
\* handler take their next step when they can; service.dispatch returns on
\* every connection but SlowConn, where it may never return; nothing is
\* assumed of the clients and of the caller of stop()
SpecLive ==
  /\ LiveInit
  /\ [][LiveNext]_vars
  /\ WF_vars(ServeStep)
  /\ \A c \in Conns : WF_vars(HandlerStep(c))
  /\ \A c \in Conns \ { SlowConn } : WF_vars(HandlerDispatchReturn(c))

(***************************************************************************)
(* serve() and its surroundings: stop() called before serve() has stored   *)
(* running = true, and another FgpServer that serves the same socket path. *)
(***************************************************************************)
\* FgpServer::stop, called while serve() has not yet stored true: the flag
\* is false and stays false
ServerStopBeforeRun ==
  /\ servePc \in { "new", "started", "cleaned", "bound", "restricted" }
  /\ ~ running
  /\ running' = FALSE
  /\ stopBeforeRun' = TRUE
  /\ UNCHANGED << svcName, cl, lc, other, callCount, alive, onStart, onStop,
                  servePc, sockFile, sockMode, listener, backlog, conn, inbuf, sent,
                  hpc, cur, nread, nwritten, last, prevKind, rt >>

\* serve() of the other instance up to its bind, before this instance
\* removes what is at the path: its socket file is at the path
OtherServe ==
  /\ other = "none"
  /\ servePc \in { "new", "started" }
  /\ sockFile = "absent"
  /\ other' = "listening"
  /\ sockFile' = "other"
  /\ UNCHANGED << svcName, cl, lc, stopBeforeRun, callCount, alive, onStart, onStop,
                  running, servePc, sockMode, listener, backlog, conn, inbuf, sent,
                  hpc, cur, nread, nwritten, last, prevKind, rt >>

\* a cleanup that removes the file at the path only when it is the socket
\* file of the instance that cleans up
OtherServeCleanup_OwnFileOnly ==
  /\ other = "listening"
  /\ other' = "stopped"
  /\ sockFile' = IF sockFile = "other" THEN "absent" ELSE sockFile
  /\ UNCHANGED << svcName, cl, lc, stopBeforeRun, callCount, alive, onStart, onStop,
                  running, servePc, sockMode, listener, backlog, conn, inbuf, sent,
                  hpc, cur, nread, nwritten, last, prevKind, rt >>

\* the end of serve() of the other instance:
\* let _ = std::fs::remove_file(&self.socket_path) removes what is at the
\* path, whoever has made it
OtherServeCleanup ==
  /\ other = "listening"
  /\ other' = "stopped"
  /\ sockFile' = "absent"
  /\ UNCHANGED << svcName, cl, lc, stopBeforeRun, callCount, alive, onStart, onStop,
                  running, servePc, sockMode, listener, backlog, conn, inbuf, sent,
                  hpc, cur, nread, nwritten, last, prevKind, rt >>

ServeNext ==
  \/ LiveNext
  \/ ServerStopBeforeRun
  \/ OtherServe
  \/ OtherServeCleanup

SpecServe == LiveInit /\ [][ServeNext]_vars

(***************************************************************************)
(* The codec on its own: a message is written with to_ndjson_line and the  *)
(* line is read back with from_ndjson_line.                                *)
(***************************************************************************)
CodecIds == { << "7" >>, << "a1b2", "-", "c3d4" >>, << "x", Newline, "y" >> }

CodecValues ==
  { JNull,
    JNum(42),
    JBool(TRUE),
    JStr(<< "l1", Newline, "l2", Quote, Backslash >>),
    JArr(<< JNum(1), JNull >>),
    JObj([k |-> JObj([z |-> JStr(<< Newline >>)])]) }

CodecParams ==
  { EmptyMap,
    [a |-> JNum(17), b |-> JNum(25)],
    [m |-> JStr(<< "l1", Newline, "l2" >>)],
    [n |-> JNull],
    [o |-> JObj([k |-> JObj([z |-> JArr(<< JNull >>)])])] }

CodecRequests ==
  { MkRequest(id, v, m, p) :
      id \in CodecIds, v \in { 0, PROTOCOL_VERSION, U8Max },
      m \in { Health, << "t", Dot, "add" >> }, p \in CodecParams }

CodecResponses ==
  { ResponseSuccess(id, r, ms) : id \in CodecIds, r \in CodecValues, ms \in { 0, 12 } }
  \cup
  { ResponseError(id, code, << "not", Newline, "found" >>, 5) :
      id \in CodecIds, code \in { INVALID_REQUEST, INTERNAL_ERROR, UNKNOWN_METHOD } }
  \cup
  { ResponseErrorWithDetails(id, INTERNAL_ERROR, << "failed" >>, d, 5) :
      id \in CodecIds, d \in CodecValues }

CodecInit ==
  /\ ServerInit
  /\ cl = ClOff /\ lc = LcOff
  /\ stopBeforeRun = FALSE /\ other = "none"
  /\ rt \in { [pc |-> "new", kind |-> "request", x |-> Some(x), line |-> BlankLine,
               y |-> None] : x \in CodecRequests }
       \cup { [pc |-> "new", kind |-> "response", x |-> Some(x), line |-> BlankLine,
               y |-> None] : x \in CodecResponses }

\* to_ndjson_line
CodecEncode ==
  /\ rt.pc = "new"
  /\ rt' = [rt EXCEPT !.pc = "encoded",
                      !.line = IF rt.kind = "request"
                                 THEN RequestToNdjsonLine(Unwrap(rt.x))
                                 ELSE ResponseToNdjsonLine(Unwrap(rt.x))]
  /\ UNCHANGED << serverVars, cl, lc, stopBeforeRun, other >>

\* from_ndjson_line
CodecDecode ==
  /\ rt.pc = "encoded"
  /\ rt' = [rt EXCEPT !.pc = "decoded",
                      !.y = Some(IF rt.kind = "request"
                                   THEN RequestFromNdjsonLine(rt.line)
                                   ELSE ResponseFromNdjsonLine(rt.line))]
  /\ UNCHANGED << serverVars, cl, lc, stopBeforeRun, other >>

CodecNext == CodecEncode \/ CodecDecode

SpecCodec == CodecInit /\ [][CodecNext]_vars

(***************************************************************************)
(* client.rs: FgpClient.  One client makes its calls one after the other   *)
(* against a daemon that comes and goes on its own.                        *)
(***************************************************************************)
MaxCalls == 2

\* uuid::Uuid::new_v4().to_string()
ClientIds == { << "u1" >>, << "u2" >> }

\* the methods and the params values a caller passes to call()
CallMethods == { Health, << "t", Dot, "echo" >> }

CallParams ==
  { JNull,
    JObj(EmptyMap),
    JObj([a |-> JNum(1)]),
    JObj([value |-> JNum(2)]),
    JNum(3),
    JStr(<< "s" >>),
    JBool(TRUE),
    JArr(<< JNum(1), JNull >>) }

\* a call() that wraps every params value
CallParamsMap_AlwaysWrap(params) == [k \in { "value" } |-> params]

\* FgpClient::call: the params map made from the params value
CallParamsMap(params) ==
  CASE Tag(params) = "obj" -> Payload(params)
    [] Tag(params) = "null" -> EmptyMap
    [] OTHER -> [k \in { "value" } |-> params]

\* Request::new
RequestNew(id, method, params) == MkRequest(id, PROTOCOL_VERSION, method, params)

\* an io::Error, and which connect attempt of the call produced it (0: none)
IoError(kind, attempt) == [kind |-> kind, attempt |-> attempt]

\* anyhow: an error with and without a context message
WithContext(context, cause) == [context |-> Some(context), cause |-> cause]

Bare(cause) == [context |-> None, cause |-> cause]

CannotConnect == "Cannot connect to daemon at {path}"

CannotConnectAfterAutoStart == "Cannot connect to daemon at {path} after auto-start"

FailedToAutoStart == "Failed to auto-start service"

FailedToParseResponse == "Failed to parse response JSON"

\* UnixStream::connect(&self.socket_path)
ConnectTo(sock) ==
  CASE sock = "listening" -> Ok("stream")
    [] sock = "stale" -> Err("ConnectionRefused")
    [] OTHER -> Err("NotFound")

\* FgpClient::new, for_service, with_auto_start, without_auto_start,
\* with_timeout: the clients a caller can build, each with the daemon's
\* socket in any state.  samePath: socket_path is the path of the service
\* that auto-start starts (for_service), or another one (new + with_auto_start)
ClientConfigs ==
  { [ClOff EXCEPT !.pc = "idle", !.auto = a, !.samePath = sp, !.timeout = t,
                  !.sock = s] :
      a \in { None, Some(<< "t" >>) }, sp \in BOOLEAN, t \in { "30s", "0" },
      s \in { "absent", "stale", "listening" } }

\* the daemon starts listening, exits and removes its socket file, or dies
\* and leaves the file behind
DaemonChange ==
  /\ cl.pc # "off"
  /\ \E s \in { "absent", "stale", "listening" } \ { cl.sock } :
       cl' = [cl EXCEPT !.sock = s]
  /\ UNCHANGED << serverVars, rt, lc, stopBeforeRun, other >>

\* is_running has its health call's result and has not returned yet
IsRunningPending == cl.api = "is_running" /\ IsSome(cl.result) /\ cl.ret = None

\* FgpClient::call up to the call of send_request
Call(method, params) ==
  /\ cl.pc = "idle"
  /\ ~ IsRunningPending
  /\ cl.calls < MaxCalls
  /\ \E id \in ClientIds :
       cl' = [cl EXCEPT !.pc = "connect", !.calls = @ + 1,
                        !.method = method, !.params = params,
                        !.req = Some(RequestNew(id, method, CallParamsMap(params))),
                        !.used = IF cl.stream = 0 THEN @ ELSE @ \cup { cl.stream },
                        !.stream = 0, !.e = None, !.log = << >>,
                        !.wrote = << >>, !.got = None, !.result = None,
                        !.api = "call", !.ret = None]
  /\ UNCHANGED << serverVars, rt, lc, stopBeforeRun, other >>

\* FgpClient::is_running up to the call of send_request:
\* self.health() is self.call("health", Value::Null)
IsRunning ==
  /\ cl.pc = "idle"
  /\ ~ IsRunningPending
  /\ cl.calls < MaxCalls
  /\ \E id \in ClientIds :
       cl' = [cl EXCEPT !.pc = "connect", !.calls = @ + 1,
                        !.method = Health, !.params = JNull,
                        !.req = Some(RequestNew(id, Health, CallParamsMap(JNull))),
                        !.used = IF cl.stream = 0 THEN @ ELSE @ \cup { cl.stream },
                        !.stream = 0, !.e = None, !.log = << >>,
                        !.wrote = << >>, !.got = None, !.result = None,
                        !.api = "is_running", !.ret = None]
  /\ UNCHANGED << serverVars, rt, lc, stopBeforeRun, other >>

\* an is_running that wants the response to have ok = true
IsRunningReturn_ResponseOk ==
  /\ cl.pc = "idle"
  /\ IsRunningPending
  /\ cl' = [cl EXCEPT !.ret = Some(IsOk(Unwrap(cl.result))
                                   /\ Payload(Unwrap(cl.result)).ok)]
  /\ UNCHANGED << serverVars, rt, lc, stopBeforeRun, other >>

\* FgpClient::is_running: self.health().is_ok()
IsRunningReturn ==
  /\ cl.pc = "idle"
  /\ IsRunningPending
  /\ cl' = [cl EXCEPT !.ret = Some(IsOk(Unwrap(cl.result)))]
  /\ UNCHANGED << serverVars, rt, lc, stopBeforeRun, other >>

\* a send_request that tries to start the service whatever the client's
\* configuration
SendRequestConnect_AlwaysStarts ==
  /\ cl.pc = "connect"
  /\ LET r == ConnectTo(cl.sock) IN
       cl' = IF IsOk(r)
               THEN [cl EXCEPT !.pc = "set_read_timeout", !.streams = @ + 1,
                               !.stream = cl.streams + 1,
                               !.log = Append(@, << "connect", cl.streams + 1 >>)]
               ELSE [cl EXCEPT !.pc = "start_service",
                               !.e = Some(IoError(Payload(r), 1)),
                               !.log = Append(@, << "connect", 0 >>)]
  /\ UNCHANGED << serverVars, rt, lc, stopBeforeRun, other >>

\* send_request: the first UnixStream::connect and the match on its result
SendRequestConnect ==
  /\ cl.pc = "connect"
  /\ LET r == ConnectTo(cl.sock) IN
       cl' = IF IsOk(r)
               THEN [cl EXCEPT !.pc = "set_read_timeout", !.streams = @ + 1,
                               !.stream = cl.streams + 1,
                               !.log = Append(@, << "connect", cl.streams + 1 >>)]
             ELSE IF IsSome(cl.auto)
               THEN [cl EXCEPT !.pc = "start_service",
                               !.e = Some(IoError(Payload(r), 1)),
                               !.log = Append(@, << "connect", 0 >>)]
             ELSE [cl EXCEPT !.pc = "idle",
                             !.e = Some(IoError(Payload(r), 1)),
                             !.log = Append(@, << "connect", 0 >>),
                             !.result = Some(Err(WithContext(CannotConnect,
                                                             IoError(Payload(r), 1))))]
  /\ UNCHANGED << serverVars, rt, lc, stopBeforeRun, other >>

\* what lifecycle::start_service returns: Ok once it has connected to the
\* service's socket, an error when the service is not installed or cannot
\* be started, an error when the socket is not ready within the timeout
StartServiceResults == { "Ok", "not started", "not ready" }

\* send_request: crate::lifecycle::start_service(service_name)
\*   .with_context("Failed to auto-start service")?
SendRequestStartService ==
  /\ cl.pc = "start_service"
  /\ \E r \in StartServiceResults :
       /\ r = "not ready" => ~ (cl.samePath /\ cl.sock = "listening")
       /\ cl' = IF r = "Ok"
                  THEN [cl EXCEPT !.pc = "retry",
                                  !.sock = IF cl.samePath THEN "listening" ELSE @,
                                  !.log = Append(@, << "start_service", 0 >>)]
                  ELSE [cl EXCEPT !.pc = "idle",
                                  !.sock = IF cl.samePath /\ r = "not ready" /\ @ = "stale"
                                             THEN "absent" ELSE @,
                                  !.log = Append(@, << "start_service", 0 >>),
                                  !.result = Some(Err(WithContext(FailedToAutoStart,
                                                                  IoError(r, 0))))]
  /\ UNCHANGED << serverVars, rt, lc, stopBeforeRun, other >>

\* send_request: the second UnixStream::connect
\*   .with_context("Cannot connect to daemon at {:?} after auto-start")?
SendRequestRetry ==
  /\ cl.pc = "retry"
  /\ LET r == ConnectTo(cl.sock) IN
       cl' = IF IsOk(r)
               THEN [cl EXCEPT !.pc = "set_read_timeout", !.streams = @ + 1,
                               !.stream = cl.streams + 1,
                               !.log = Append(@, << "connect", cl.streams + 1 >>)]
               ELSE [cl EXCEPT !.pc = "idle",
                               !.log = Append(@, << "connect", 0 >>),
                               !.result = Some(Err(WithContext(CannotConnectAfterAutoStart,
                                                               IoError(Payload(r), 2))))]
  /\ UNCHANGED << serverVars, rt, lc, stopBeforeRun, other >>

\* send_request_on_stream: stream.set_read_timeout(Some(self.timeout))?,
\* an error for a zero Duration
OnStreamSetReadTimeout ==
  /\ cl.pc = "set_read_timeout"
  /\ cl' = IF cl.timeout = "0"
             THEN [cl EXCEPT !.pc = "idle",
                             !.log = Append(@, << "set_read_timeout", cl.stream >>),
                             !.result = Some(Err(Bare(IoError("InvalidInput", 0))))]
             ELSE [cl EXCEPT !.pc = "set_write_timeout",
                             !.log = Append(@, << "set_read_timeout", cl.stream >>)]
  /\ UNCHANGED << serverVars, rt, lc, stopBeforeRun, other >>

\* send_request_on_stream: stream.set_write_timeout(Some(self.timeout))?
OnStreamSetWriteTimeout ==
  /\ cl.pc = "set_write_timeout"
  /\ cl' = IF cl.timeout = "0"
             THEN [cl EXCEPT !.pc = "idle",
                             !.log = Append(@, << "set_write_timeout", cl.stream >>),
                             !.result = Some(Err(Bare(IoError("InvalidInput", 0))))]
             ELSE [cl EXCEPT !.pc = "write",
                             !.log = Append(@, << "set_write_timeout", cl.stream >>)]
  /\ UNCHANGED << serverVars, rt, lc, stopBeforeRun, other >>

\* a send_request_on_stream that writes the request line twice
OnStreamWrite_Twice ==
  /\ cl.pc = "write"
  /\ cl' = [cl EXCEPT !.pc = "flush",
                      !.log = @ \o << << "write", cl.stream >>, << "write", cl.stream >> >>,
                      !.wrote = @ \o << RequestToNdjsonLine(Unwrap(cl.req)),
                                        RequestToNdjsonLine(Unwrap(cl.req)) >>]
  /\ UNCHANGED << serverVars, rt, lc, stopBeforeRun, other >>

\* send_request_on_stream: request.to_ndjson_line()? and
\* stream.write_all(request_line.as_bytes())?; the write fails when the
\* peer has gone or the write timeout passes
OnStreamWrite ==
  /\ cl.pc = "write"
  /\ \E r \in { "Ok", "BrokenPipe", "WouldBlock" } :
       cl' = IF r = "Ok"
               THEN [cl EXCEPT !.pc = "flush",
                               !.log = Append(@, << "write", cl.stream >>),
                               !.wrote = Append(@, RequestToNdjsonLine(Unwrap(cl.req)))]
               ELSE [cl EXCEPT !.pc = "idle",
                               !.log = Append(@, << "write", cl.stream >>),
                               !.result = Some(Err(Bare(IoError(r, 0))))]
  /\ UNCHANGED << serverVars, rt, lc, stopBeforeRun, other >>

\* send_request_on_stream: stream.flush()?, which does nothing on a
\* UnixStream
OnStreamFlush ==
  /\ cl.pc = "flush"
  /\ cl' = [cl EXCEPT !.pc = "read", !.log = Append(@, << "flush", cl.stream >>)]
  /\ UNCHANGED << serverVars, rt, lc, stopBeforeRun, other >>

\* the lines a peer may answer with: the response to the request, a
\* response of the server to a line it could not parse, something that is
\* not a response, and nothing (end of file: read_line returns Ok(0))
ReplyLines(req) ==
  { ResponseToNdjsonLine(ResponseSuccess(req.id, JStr(<< "r" >>), 0)),
    ResponseToNdjsonLine(ResponseError(<< "null" >>, INVALID_REQUEST, << "bad" >>, 0)),
    TextLine(Garbage),
    BlankLine }

\* send_request_on_stream: reader.read_line(&mut response_line)? and
\* Response::from_ndjson_line(&response_line); read_line fails when the
\* read timeout passes or the line is not UTF-8
OnStreamReadLine ==
  /\ cl.pc = "read"
  /\ \/ \E line \in ReplyLines(Unwrap(cl.req)) :
          LET d == ResponseFromNdjsonLine(line) IN
          cl' = [cl EXCEPT !.pc = "idle",
                           !.log = Append(@, << "read_line", cl.stream >>),
                           !.got = Some(line),
                           !.result =
                             Some(IF IsOk(d) THEN d
                                  ELSE Err(WithContext(FailedToParseResponse,
                                                       IoError("serde_json", 0))))]
     \/ \E r \in { "WouldBlock", "InvalidData" } :
          cl' = [cl EXCEPT !.pc = "idle",
                           !.log = Append(@, << "read_line", cl.stream >>),
                           !.result = Some(Err(Bare(IoError(r, 0))))]
  /\ UNCHANGED << serverVars, rt, lc, stopBeforeRun, other >>

ClientInit ==
  /\ ServerInit
  /\ svcName = << "t" >>
  /\ sockFile = "absent"
  /\ rt = RtOff /\ lc = LcOff
  /\ stopBeforeRun = FALSE /\ other = "none"
  /\ cl \in ClientConfigs

ClientNext ==
  \/ DaemonChange
  \/ \E method \in CallMethods, params \in CallParams : Call(method, params)
  \/ IsRunning
  \/ IsRunningReturn
  \/ SendRequestConnect
  \/ SendRequestStartService
  \/ SendRequestRetry
  \/ OnStreamSetReadTimeout
  \/ OnStreamSetWriteTimeout
  \/ OnStreamWrite
  \/ OnStreamFlush
  \/ OnStreamReadLine

SpecClient == ClientInit /\ [][ClientNext]_vars

(***************************************************************************)
(* lifecycle.rs: stop_service, called once for a service whose socket      *)
(* file, PID file, process and manifest are in any state.                  *)
(***************************************************************************)
\* the file name of daemon.entrypoint in the manifest, and the command
\* names `ps -o comm=` can print for the process of the PID file
EntrypointName == << "f", "g", "p", "d" >>

CommNames == { << "f", "g", "p", "d" >>, << "x", "f", "g", "p", "d", "2" >>, << "s", "h" >> }

\* str::contains
ContainsStr(str, pat) ==
  \E i \in 1 .. (Len(str) - Len(pat) + 1) : SubSeq(str, i, i + Len(pat) - 1) = pat

\* read_pid_file: the PID, when the file exists and holds a number
ReadPidFile(l) == IF l.pidFile = "present" THEN l.pidContent ELSE None

\* is_process_running: kill(pid, 0) == 0
IsProcessRunning(l) == IsSome(l.comm) /\ ~ l.exited

\* read_entrypoint_name: no name when the manifest does not exist or has
\* no daemon.entrypoint, an error when it cannot be read or parsed
ReadEntrypointName(manifest) ==
  CASE manifest = "missing" -> Ok(None)
    [] manifest = "no_entrypoint" -> Ok(None)
    [] manifest = "unreadable" -> Err("Failed to parse manifest.json")
    [] OTHER -> Ok(Some(EntrypointName))

\* a pid_matches_process that is content with any running process
PidMatchesProcess_AnyName(l, expected) == IsSome(l.comm)

\* pid_matches_process
PidMatchesProcess(l, expected) ==
  /\ IsSome(expected)
  /\ IsSome(l.comm) /\ ~ l.exited
  /\ ContainsStr(Unwrap(l.comm), Unwrap(expected))

\* client.stop() of a client made with FgpClient::new: an acknowledgment
\* with ok = true, another response, or an error; only an error when
\* nothing listens on the socket
ClientStopResults(sock) ==
  IF sock = "listening" THEN { "ack", "not ok", "Err" } ELSE { "Err" }

\* the states in which stop_service can find the service
LcConfigs ==
  { [LcOff EXCEPT !.pc = "start", !.sock = s,
                  !.pidFile = IF p = "absent" THEN "absent" ELSE "present",
                  !.pidContent = IF p = "pid" THEN Some("pid") ELSE None,
                  !.comm = c, !.manifest = m] :
      s \in { "absent", "stale", "listening" },
      p \in { "absent", "garbage", "pid" },
      c \in { None } \cup { Some(n) : n \in CommNames },
      m \in { "missing", "no_entrypoint", "unreadable", "ok" } }

\* stop_service: if socket_path.exists(), client.stop(); Ok(()) is returned
\* at once when the response has ok = true
StopServiceGraceful ==
  /\ lc.pc = "start"
  /\ IF lc.sock = "absent"
       THEN lc' = [lc EXCEPT !.pc = "pid"]
       ELSE \E r \in ClientStopResults(lc.sock) :
              lc' = IF r = "ack"
                      THEN [lc EXCEPT !.pc = "done", !.acked = TRUE,
                                      !.result = Some(Ok("unit"))]
                      ELSE [lc EXCEPT !.pc = "pid"]
  /\ UNCHANGED << serverVars, rt, cl, stopBeforeRun, other >>

\* stop_service: read_pid_file, is_process_running,
\* read_entrypoint_name(..)?, pid_matches_process or bail!, libc::kill
StopServiceSignal ==
  /\ lc.pc = "pid"
  /\ lc' = IF IsSome(ReadPidFile(lc)) /\ IsProcessRunning(lc)
             THEN LET expected == ReadEntrypointName(lc.manifest) IN
                  IF IsErr(expected)
                    THEN [lc EXCEPT !.pc = "done",
                                    !.result = Some(Err(Payload(expected)))]
                  ELSE IF ~ PidMatchesProcess(lc, Payload(expected))
                    THEN [lc EXCEPT !.pc = "done",
                                    !.result = Some(Err("Refusing to stop PID"))]
                  ELSE [lc EXCEPT !.pc = "cleanup", !.signals = @ + 1]
             ELSE [lc EXCEPT !.pc = "cleanup"]
  /\ UNCHANGED << serverVars, rt, cl, stopBeforeRun, other >>

\* stop_service: remove_file(&socket_path), remove_file(&pid_path), Ok(())
StopServiceCleanup ==
  /\ lc.pc = "cleanup"
  /\ lc' = [lc EXCEPT !.pc = "done", !.sock = "absent", !.pidFile = "absent",
                      !.removed = { "socket", "pid" },
                      !.result = Some(Ok("unit"))]
  /\ UNCHANGED << serverVars, rt, cl, stopBeforeRun, other >>

\* the daemon whose flag a stop request has cleared leaves its accept loop
\* when a further connection arrives, and serve() removes the socket file
DaemonShutdown ==
  /\ lc.pc # "off"
  /\ lc.acked
  /\ lc.sock = "listening"
  /\ lc' = [lc EXCEPT !.sock = "absent"]
  /\ UNCHANGED << serverVars, rt, cl, stopBeforeRun, other >>

\* the process that got SIGTERM ends; a socket it listened on stays behind
\* as a file
SignalledExit ==
  /\ lc.signals > 0
  /\ ~ lc.exited
  /\ lc' = [lc EXCEPT !.exited = TRUE,
                      !.sock = IF @ = "listening" THEN "stale" ELSE @]
  /\ UNCHANGED << serverVars, rt, cl, stopBeforeRun, other >>

LifecycleInit ==
  /\ ServerInit
  /\ svcName = << "t" >>
  /\ sockFile = "absent"
  /\ rt = RtOff /\ cl = ClOff
  /\ stopBeforeRun = FALSE /\ other = "none"
  /\ lc \in LcConfigs

LifecycleNext ==
  \/ StopServiceGraceful
  \/ StopServiceSignal
  \/ StopServiceCleanup
  \/ DaemonShutdown
  \/ SignalledExit

SpecLifecycle == LifecycleInit /\ [][LifecycleNext]_vars

(***************************************************************************)
(* Properties.                                                             *)
(***************************************************************************)

\* C3: a message that went through to_ndjson_line and from_ndjson_line
\* comes back equal to the original, for every Request and every Response
\* built by Response::success, Response::error or
\* Response::error_with_details.
C3_RoundTrip ==
  rt.pc = "decoded" => Unwrap(rt.y) = Ok(Unwrap(rt.x))

(***************************************************************************)
(* Reading the state: e is cur[c] (the line a handler is processing) or    *)
(* last[c] (a response line it has written).                               *)
(***************************************************************************)
Written(c) == last[c].kind # "idle"

InHand(c) == cur[c].kind # "idle"

\* the JSON object of a written response line, as the client receives it
WireObj(e) == Payload(LineDoc(e.wire))

WireId(e) == UnescapeStr(Payload(WireObj(e)["id"]))

WireOk(e) == Payload(WireObj(e)["ok"])

WireHas(e, k) == HasKey(WireObj(e), k) /\ WireObj(e)[k] # JNull

WireErrorCode(e) == UnescapeStr(Payload(Payload(WireObj(e)["error"])["code"]))

WireErrorMessage(e) == UnescapeStr(Payload(Payload(WireObj(e)["error"])["message"]))

\* the request a line decodes to, when it does
Decodes(line) == IsOk(RequestFromNdjsonLine(line))

Decoded(line) == RequestFromNdjsonLine(line)[2]

\* the six names the server answers itself, for a service named name
BuiltinNames(name) ==
  { Health, Stop, Methods,
    ServicePrefix(name) \o Health, ServicePrefix(name) \o Stop,
    ServicePrefix(name) \o Methods }

\* a request of the supported version for a method that is no built-in
ForService(e) ==
  /\ e.kind # "idle"
  /\ Decodes(e.line)
  /\ Decoded(e.line).v = PROTOCOL_VERSION
  /\ Decoded(e.line).method \notin BuiltinNames(svcName)

\* C1: every response line a handler writes carries the id of the request
\* its line decoded to, and the id "null" when the line did not decode.
C1_IdEcho ==
  \A c \in Conns :
    Written(c) =>
      IF Decodes(last[c].line)
        THEN WireId(last[c]) = Decoded(last[c].line).id
        ELSE WireId(last[c]) = << "null" >>

\* C1 witness: one handler has answered a dispatched request whose id holds
\* an escaped newline, another has answered a line that does not decode.
C1_Witness ==
  /\ Written(1) /\ last[1].kind = "dispatch"
  /\ Decoded(last[1].line).id = << "u", Newline >>
  /\ Written(2) /\ last[2].kind = "parse_error"

\* C2: every response line on the wire has exactly one of result and error
\* as a non-null value: ok is true iff result is there and error is not,
\* ok is false iff error is there and result is not.
C2_ExactlyOneOfResultError ==
  \A c \in Conns :
    Written(c) =>
      /\ WireOk(last[c]) <=> (WireHas(last[c], "result") /\ ~ WireHas(last[c], "error"))
      /\ ~ WireOk(last[c]) <=> (WireHas(last[c], "error") /\ ~ WireHas(last[c], "result"))

\* C4: a method m that is no built-in is dispatched as "s." + m when it has
\* no '.', dispatched unchanged when it starts with "s.", and answered with
\* INVALID_REQUEST without a dispatch when it has a '.' and does not start
\* with "s."; every method handed to dispatch starts with "s.".
C4_Normalized(e) ==
  /\ ForService(e) =>
       LET m == Decoded(e.line).method IN
         /\ ~ Contains(m, Dot) =>
              e.kind = "dispatch" /\ e.dmethod = Some(ServicePrefix(svcName) \o m)
         /\ StartsWith(m, ServicePrefix(svcName)) =>
              e.kind = "dispatch" /\ e.dmethod = Some(m)
         /\ (Contains(m, Dot) /\ ~ StartsWith(m, ServicePrefix(svcName))) =>
              /\ e.kind = "mismatch"
              /\ "dispatch" \notin e.fx
              /\ IsNone(e.dmethod)
              /\ ~ Unwrap(e.resp).ok
              /\ Unwrap(Unwrap(e.resp).error).code = INVALID_REQUEST
  /\ ("dispatch" \in e.fx \/ IsSome(e.dmethod)) =>
       /\ "dispatch" \in e.fx /\ IsSome(e.dmethod)
       /\ StartsWith(Unwrap(e.dmethod), ServicePrefix(svcName))

C5_AnsweredByServer(e) ==
  ( /\ e.kind # "idle"
    /\ Decodes(e.line)
    /\ Decoded(e.line).v = PROTOCOL_VERSION
    /\ Decoded(e.line).method \in BuiltinNames(svcName) )
  => /\ e.kind \in { "health", "stop", "methods" }
     /\ "dispatch" \notin e.fx
     /\ IsNone(e.dmethod)
     /\ IsSome(e.resp) /\ Unwrap(e.resp).ok

C5_BuiltinPrecedence ==
  /\ \A c \in Conns : C5_AnsweredByServer(cur[c]) /\ C5_AnsweredByServer(last[c])
  /\ \A c \in Conns :
       hpc[c] = "dispatch" => Unwrap(cur[c].req).method \notin BuiltinNames(svcName)

\* C5 witness: "<service>.health" has been answered by the health built-in
\* of a service whose method_list() advertises a method named "health".
C5_Witness ==
  /\ \E i \in DOMAIN ServiceMethodList(svcName) : ServiceMethodList(svcName)[i].name = Health
  /\ \E c \in Conns :
       /\ Written(c) /\ last[c].kind = "health"
       /\ Decoded(last[c].line).method = ServicePrefix(svcName) \o Health

\* C6: a line that is not a decodable Request (not JSON, a required field
\* missing or wrongly typed, bytes that are not UTF-8) never ends the
\* handler: it is answered with one INVALID_REQUEST response and the
\* handler goes on to read the next line, which is processed normally.
C6_MalformedNeverTerminates ==
  \A c \in Conns :
    /\ hpc[c] # "read_error"
    /\ (Written(c) /\ ~ Decodes(last[c].line)) =>
         /\ ~ WireOk(last[c])
         /\ WireErrorCode(last[c]) = INVALID_REQUEST
         /\ last[c].n = nwritten[c]
         /\ hpc[c] \in { "read", "eof" }
    /\ (Written(c) /\ last[c].prev = "parse_error" /\ Decodes(last[c].line)
          /\ Decoded(last[c].line).v = PROTOCOL_VERSION) =>
         last[c].kind \in { "health", "stop", "methods", "mismatch", "dispatch" }

\* what C6 says of the lines that read_line returns (every malformed line
\* but the one that is not UTF-8)
C6_TextLinesOnly ==
  \A c \in Conns :
    /\ (Written(c) /\ ~ Decodes(last[c].line)) =>
         /\ ~ WireOk(last[c])
         /\ WireErrorCode(last[c]) = INVALID_REQUEST
         /\ last[c].n = nwritten[c]
         /\ hpc[c] \in { "read", "eof" }
    /\ (Written(c) /\ last[c].prev = "parse_error" /\ Decodes(last[c].line)
          /\ Decoded(last[c].line).v = PROTOCOL_VERSION) =>
         last[c].kind \in { "health", "stop", "methods", "mismatch", "dispatch" }

\* C7: a request that decodes with a version other than PROTOCOL_VERSION
\* is answered with INVALID_REQUEST and its own id; nothing else happens:
\* no dispatch, no health_check, no store to the running flag; after the
\* response the handler is reading again.
C7_Rejected(e) ==
  (e.kind # "idle" /\ Decodes(e.line) /\ Decoded(e.line).v # PROTOCOL_VERSION) =>
    /\ e.kind = "version"
    /\ e.fx = {}
    /\ IsNone(e.dmethod)
    /\ ~ Unwrap(e.resp).ok
    /\ Unwrap(Unwrap(e.resp).error).code = INVALID_REQUEST
    /\ Unwrap(e.resp).id = Decoded(e.line).id

C7_State ==
  \A c \in Conns :
    /\ C7_Rejected(cur[c]) /\ C7_Rejected(last[c])
    /\ hpc[c] = "dispatch" => Unwrap(cur[c].req).v = PROTOCOL_VERSION
    /\ (Written(c) /\ last[c].kind = "version") =>
         /\ WireId(last[c]) = Decoded(last[c].line).id
         /\ WireErrorCode(last[c]) = INVALID_REQUEST
         /\ hpc[c] \in { "read", "eof" }

\* the step in which the handler of c takes the line l
Takes(c, l) ==
  /\ hpc[c] = "read"
  /\ inbuf[c] # << >>
  /\ Head(inbuf[c]) = l
  /\ inbuf'[c] = Tail(inbuf[c])

C7_Step ==
  \A c \in Conns :
    /\ (inbuf[c] # << >> /\ Takes(c, Head(inbuf[c])) /\ Decodes(Head(inbuf[c]))
          /\ Decoded(Head(inbuf[c])).v # PROTOCOL_VERSION)
         => running' = running
    /\ (hpc[c] = "write" /\ cur[c].kind = "version" /\ conn[c] # "closed"
          /\ hpc'[c] # hpc[c])
         => hpc'[c] = "read"

C7_VersionMismatch == [] C7_State /\ [][C7_Step]_vars

\* C7 witness: a stop request of version 2 has been answered while the
\* server is running, the flag is still set and the handler reads on.
C7_Witness ==
  \E c \in Conns :
    /\ Written(c) /\ last[c].kind = "version"
    /\ Decoded(last[c].line).method = Stop
    /\ running
    /\ hpc[c] = "read"

\* what C8 says of the response: Ok(r) gives ok = true with result r, a
\* failure gives ok = false with INTERNAL_ERROR and the failure's message
C8_Mapping(e) ==
  LET o == Unwrap(e.outcome) IN
    IF IsOk(o)
      THEN /\ WireOk(e)
           /\ HasKey(WireObj(e), "result")
           /\ WireObj(e)["result"] = WriteValue(o[2])
           /\ ~ HasKey(WireObj(e), "error")
      ELSE /\ ~ WireOk(e)
           /\ ~ HasKey(WireObj(e), "result")
           /\ WireErrorCode(e) = INTERNAL_ERROR
           /\ WireErrorMessage(e) = o[2]

\* C8 as stated: the response to a dispatched request follows what dispatch
\* returned, and in both cases the connection stays open (the handler does
\* not leave its loop).
C8_StaysOpen ==
  \A c \in Conns :
    (Written(c) /\ last[c].kind = "dispatch") =>
      /\ C8_Mapping(last[c])
      /\ hpc[c] # "shutdown"

C8_AmendedStep ==
  \A c \in Conns :
    (hpc[c] = "check" /\ last[c].kind = "dispatch" /\ hpc'[c] # hpc[c]) =>
      IF running THEN hpc'[c] = "read" ELSE hpc'[c] = "shutdown"

\* C8 amended: the response to a dispatched request follows what dispatch
\* returned; after writing it the handler reads the next line if the
\* running flag is still set when it looks, and leaves its loop if the
\* flag has been cleared.
C8_DispatchOutcome ==
  /\ [] (\A c \in Conns :
           (Written(c) /\ last[c].kind = "dispatch") =>
             /\ C8_Mapping(last[c])
             /\ hpc[c] \in { "check", "read", "eof", "shutdown" }
             /\ hpc[c] = "shutdown" => ~ running)
  /\ [][C8_AmendedStep]_vars

\* C8 witness: a failed dispatch has been answered and the handler is
\* reading again.
C8_Witness ==
  \E c \in Conns :
    /\ Written(c) /\ last[c].kind = "dispatch"
    /\ IsErr(Unwrap(last[c].outcome))
    /\ hpc[c] = "read"

\* C9: every error response the server makes carries INVALID_REQUEST or
\* INTERNAL_ERROR.
C9_FrameworkCodes ==
  \A c \in Conns :
    /\ (IsSome(cur[c].resp) /\ ~ Unwrap(cur[c].resp).ok) =>
         Unwrap(Unwrap(cur[c].resp).error).code \in { INVALID_REQUEST, INTERNAL_ERROR }
    /\ (Written(c) /\ ~ WireOk(last[c])) =>
         WireErrorCode(last[c]) \in { INVALID_REQUEST, INTERNAL_ERROR }

\* C9 witness: one connection has received the answer to a method of
\* another namespace, another the answer to a failed dispatch.
C9_Witness ==
  /\ Written(1) /\ last[1].kind = "mismatch"
  /\ Written(2) /\ last[2].kind = "dispatch" /\ ~ WireOk(last[2])

\* C10: a handler reads no line before the response to the line before it
\* is written; the k-th response answers the k-th non-blank line; every
\* non-blank line gets exactly one response and a blank line none.  (A
\* handler whose write failed because the client is gone is left out.)
C10_StrictAlternation ==
  \A c \in Conns :
    /\ hpc[c] \in { "dispatch", "write" } => nread[c] = nwritten[c] + 1
    /\ hpc[c] \in { "none", "dropped", "read", "check", "eof", "shutdown", "read_error" }
         => nread[c] = nwritten[c]
    /\ Written(c) => last[c].n = nwritten[c]
    /\ InHand(c) => cur[c].n = nwritten[c] + 1

\* what C10 says of the lines that read_line returns
C10_TextLinesOnly ==
  \A c \in Conns :
    /\ hpc[c] \in { "dispatch", "write" } => nread[c] = nwritten[c] + 1
    /\ hpc[c] \in { "none", "dropped", "read", "check", "eof", "shutdown" }
         => nread[c] = nwritten[c]
    /\ Written(c) => last[c].n = nwritten[c]
    /\ InHand(c) => cur[c].n = nwritten[c] + 1

\* the line the handler of c has in hand or has just answered is one that
\* the client of c sent, and the response is made from that line alone
C11_Own(c, e) ==
  e.kind # "idle" =>
    /\ e.line \in LinesOf(svcName, c)
    /\ Decodes(e.line) => e.req = Some(Decoded(e.line))
    /\ (IsSome(e.resp) /\ Decodes(e.line)) => Unwrap(e.resp).id = Decoded(e.line).id
    /\ e.kind = "dispatch" =>
         /\ e.dmethod = Some(DispatchMethod(svcName, Decoded(e.line).method))
         /\ IsSome(e.outcome) =>
              e.resp = Some(DispatchResponse(Decoded(e.line), Unwrap(e.outcome),
                                             Unwrap(e.resp).meta.server_ms))

C11_State ==
  \A c \in Conns :
    /\ C11_Own(c, cur[c]) /\ C11_Own(c, last[c])
    /\ Written(c) =>
         /\ Decodes(last[c].line) => WireId(last[c]) = Decoded(last[c].line).id
         /\ last[c].kind = "dispatch" => C8_Mapping(last[c])

\* a response line appears on c only in a step of the handler of c, and it
\* is the response to the line that handler has in hand
C11_Step ==
  \A c \in Conns :
    nwritten'[c] # nwritten[c] =>
      /\ hpc[c] = "write"
      /\ nwritten'[c] = nwritten[c] + 1
      /\ last'[c].line = cur[c].line
      /\ last'[c].resp = cur[c].resp
      /\ \A d \in Conns \ { c } : nwritten'[d] = nwritten[d] /\ last'[d] = last[d]

\* C11: with several connections handled at once, under every interleaving,
\* the response written on a connection carries the id of the request sent
\* on that connection and the result of the dispatch of that request; no
\* response is written on a connection other than the one of its request.
C11_NoCrossTalk == [] C11_State /\ [][C11_Step]_vars

\* C11 witness: two connections have each received the answer to their own
\* dispatched request, with different ids and different outcomes.
C11_Witness ==
  /\ Written(1) /\ last[1].kind = "dispatch" /\ WireId(last[1]) = << "7" >>
  /\ Written(2) /\ last[2].kind = "dispatch" /\ WireId(last[2]) = << "22" >>
  /\ WireOk(last[1]) /\ ~ WireOk(last[2])

\* a stop request has been acknowledged on some connection
C13_Acked ==
  \E c \in Conns : Written(c) /\ last[c].kind = "stop"

C13_Step ==
  C13_Acked => \A d \in Conns : ~ (conn[d] = "idle" /\ conn'[d] = "connected")

\* C13: a stop request is answered with ok = true and the shutdown message,
\* and once that response is written no new connection to the socket
\* succeeds.
C13_GracefulStop ==
  /\ [] (\A c \in Conns :
           (Written(c) /\ last[c].kind = "stop") =>
             /\ WireOk(last[c])
             /\ WireObj(last[c])["result"] =
                  WriteValue(JObj([message |-> JStr(<< "Shutting down" >>)])))
  /\ [][C13_Step]_vars

\* what C13 says of the response alone
C13_Acknowledged ==
  \A c \in Conns :
    (Written(c) /\ last[c].kind = "stop") =>
      /\ WireOk(last[c])
      /\ WireObj(last[c])["result"] =
           WriteValue(JObj([message |-> JStr(<< "Shutting down" >>)]))
      /\ ~ running

C15_Step ==
  \A c \in Conns :
    /\ (hpc[c] = "write" /\ ~ running /\ nwritten'[c] = nwritten[c] + 1)
         => hpc'[c] = "check"
    /\ (hpc[c] = "check" /\ ~ running /\ hpc'[c] # hpc[c])
         => hpc'[c] = "shutdown"

\* C15: a handler that has written a response of any kind while the
\* running flag is false leaves its loop without reading another line.
C15_ExitAfterResponse == [][C15_Step]_vars

\* what C15 says of the responses that are not answers to an undecodable
\* line or to a version mismatch
C15_StepChecked ==
  \A c \in Conns :
    /\ (hpc[c] = "write" /\ ~ running /\ nwritten'[c] = nwritten[c] + 1
          /\ ~ ContinuesAfter(cur[c].kind))
         => hpc'[c] = "check"
    /\ (hpc[c] = "check" /\ ~ running /\ hpc'[c] # hpc[c])
         => hpc'[c] = "shutdown"

C15_CheckedPaths == [][C15_StepChecked]_vars

C16_Step ==
  \A c \in Conns :
    /\ (~ running /\ inbuf[c] # << >> /\ Takes(c, Head(inbuf[c]))
          /\ LineKind(Head(inbuf[c])) = "text")
         => cur'[c].kind \notin { "health", "stop", "methods", "dispatch" }
    /\ (~ running /\ hpc[c] = "check" /\ hpc'[c] # hpc[c]) => hpc'[c] = "shutdown"

\* C16: once the running flag is cleared a handler finishes at most the
\* request it is processing and exits; no handler routes to a built-in or
\* dispatches a line that it read after the flag was cleared.
C16_CooperativeCancellation == [][C16_Step]_vars

\* C18: on_start is called exactly once, before the removal of a stale
\* socket file, the bind and any accept; when it fails serve() returns the
\* failure: no file is removed, nothing is bound, the running flag is not
\* set and on_stop is not called.
C18_State ==
  /\ Len(onStart) <= 1
  /\ servePc = "new" <=> onStart = << >>
  /\ onStart = << >> =>
       /\ ~ listener /\ ~ running /\ sockFile # "socket" /\ onStop = << >>
       /\ \A c \in Conns : hpc[c] = "none" /\ conn[c] = "idle"
  /\ onStart = << "Err" >> <=> servePc = "start_failed"
  /\ servePc = "start_failed" =>
       /\ ~ listener /\ ~ running /\ sockFile # "socket" /\ onStop = << >>
       /\ \A c \in Conns : hpc[c] = "none" /\ conn[c] = "idle"

C18_Step ==
  /\ onStart' # onStart => servePc = "new" /\ onStart = << >>
  /\ (onStart' = << >> \/ servePc' = "start_failed") =>
       UNCHANGED << sockFile, sockMode, listener, running, onStop, backlog, hpc >>

C18_OnStart == [] C18_State /\ [][C18_Step]_vars

\* C18 witness: on_start has failed and serve() has returned with the stale
\* socket file still in place.
C18_Witness ==
  /\ servePc = "start_failed"
  /\ onStart = << "Err" >>
  /\ sockFile = "stale"

\* serve() has been in its accept loop
C19_EnteredLoop == servePc \in { "accepting", "exited", "hooked", "returned" }

C19_State ==
  /\ Len(onStop) <= 1
  /\ Len(onStop) = 1 <=> servePc \in { "hooked", "returned" }
  /\ ~ C19_EnteredLoop => onStop = << >>
  /\ servePc = "returned" => sockFile = "absent" /\ ~ listener

C19_Step ==
  /\ onStop' # onStop => servePc = "exited" /\ servePc' = "hooked"
  /\ (servePc = "hooked" /\ servePc' # servePc) =>
       servePc' = "returned" /\ sockFile' = "absent"

\* C19: on_stop is called exactly once by a serve() that entered its accept
\* loop, after the loop has exited and not before; whatever on_stop
\* returns, serve() goes on to remove the socket file and returns Ok.
C19_OnStop == [] C19_State /\ [][C19_Step]_vars

\* C19 witness: on_stop has failed and serve() has returned Ok with the
\* socket file removed.
C19_Witness ==
  /\ servePc = "returned"
  /\ onStop = << "Err" >>
  /\ sockFile = "absent"

\* C20: no client is connected to the listening socket while the socket
\* file has permissions other than owner-only.
C20_OwnerOnlyBeforeConnect ==
  [][\A c \in Conns :
       (conn[c] = "idle" /\ conn'[c] = "connected") => sockMode = "0600"]_vars

\* what C20 says of the accept loop: every connection that serve() accepts
\* is accepted after the permissions are set
C20_AcceptAfterRestrict ==
  \A c \in Conns : hpc[c] # "none" => sockMode = "0600"

\* the client of d is connected and the next thing for the server to do on
\* d is to take (after accepting d, when it is not yet accepted) a line of
\* text that is not blank
C12_Waiting(d) ==
  /\ conn[d] = "connected"
  /\ hpc[d] \in { "none", "read" }
  /\ hpc[d] = "none" => \E i \in DOMAIN backlog : backlog[i] = d
  /\ inbuf[d] # << >>
  /\ LineKind(Head(inbuf[d])) = "text"

\* C12: whatever the handler of another connection is doing, a service
\* call that never returns included, a request that waits on a connection,
\* accepted or not yet accepted, gets its response, unless the running flag
\* is cleared or the client goes away first.
C12_NoStall ==
  \A d \in Conns \ { SlowConn } : \A k \in 0 .. MaxLines :
    (running /\ servePc = "accepting" /\ C12_Waiting(d) /\ nwritten[d] = k)
      ~> (nwritten[d] = k + 1 \/ ~ running \/ conn[d] = "closed")

\* C12 witness: a request has been answered on a connection while the
\* handler of the slow connection is inside dispatch and the server runs.
C12_Witness ==
  /\ hpc[SlowConn] = "dispatch"
  /\ running
  /\ \E d \in Conns \ { SlowConn } : Written(d) /\ last[d].kind = "dispatch" /\ hpc[d] = "read"

\* C14: once the running flag is cleared while serve() is in its accept
\* loop, serve() leaves the loop, calls on_stop, removes the socket file
\* and returns, with no client connecting any more.
C14_ShutdownLiveness ==
  (~ running /\ servePc = "accepting") ~> (servePc = "returned")

\* what holds of C14: serve() returns once one more connection has arrived
C14_AfterNextConnection ==
  (~ running /\ servePc = "accepting" /\ backlog # << >>) ~> (servePc = "returned")

C17_State ==
  \A c \in Conns :
    /\ hpc[c] = "dispatch" => ENABLED HandlerDispatchReturn(c)
    /\ hpc[c] = "write" => ENABLED HandlerWrite(c)

C17_Step ==
  \A c \in Conns :
    /\ (hpc[c] = "dispatch" /\ (hpc'[c] # hpc[c] \/ cur'[c] # cur[c])) =>
         /\ hpc'[c] = "write"
         /\ IsSome(cur'[c].outcome)
         /\ cur'[c].resp =
              Some(DispatchResponse(Unwrap(cur[c].req), Unwrap(cur'[c].outcome),
                                    Unwrap(cur'[c].resp).meta.server_ms))
    /\ (hpc[c] = "write" /\ cur[c].kind = "dispatch" /\ hpc'[c] # hpc[c]) =>
         IF conn[c] = "closed"
           THEN hpc'[c] = "write_error"
           ELSE /\ nwritten'[c] = nwritten[c] + 1
                /\ last'[c].resp = cur[c].resp
                /\ last'[c].wire = ResponseToNdjsonLine(Unwrap(cur[c].resp))

\* C17: a service call in progress when the running flag is cleared is not
\* given up: in every state of serve(), returned included, the call can
\* return, the only thing the handler does next is to write the response
\* made from what the call returned, and for a call that returns the
\* response is written unless the client has gone away.
C17_NoHardCancellation ==
  /\ [] C17_State
  /\ [][C17_Step]_vars
  /\ \A c \in Conns \ { SlowConn } : \A k \in 0 .. MaxLines :
       (hpc[c] = "dispatch" /\ ~ running /\ nwritten[c] = k)
         ~> (nwritten[c] = k + 1 \/ conn[c] = "closed")

\* what holds of C17: nothing in the server gives a service call up, and
\* for a call that returns the response is written, for as long as the
\* process exists
C17_UntilProcessExit ==
  /\ [] (alive => C17_State)
  /\ [][C17_Step]_vars
  /\ \A c \in Conns \ { SlowConn } : \A k \in 0 .. MaxLines :
       (hpc[c] = "dispatch" /\ ~ running /\ nwritten[c] = k)
         ~> (nwritten[c] = k + 1 \/ conn[c] = "closed" \/ ~ alive)

C27_Result(e) == Payload(WireObj(e)["result"])

\* the status the claim gives for the "services" object of a response
C27_Expected(e) ==
  LET svc == Payload(C27_Result(e)["services"])
      ok(k) == Payload(Payload(svc[k])["ok"])
  IN  IF DOMAIN svc = {} \/ \A k \in DOMAIN svc : ok(k) THEN << "healthy" >>
      ELSE IF \A k \in DOMAIN svc : ~ ok(k) THEN << "unhealthy" >>
      ELSE << "degraded" >>

\* C27: the answer to a health request is ok = true and its status follows
\* the map of health_check(): "healthy" for an empty map or all entries
\* ok, "unhealthy" for entries that are all not ok, "degraded" for a mix;
\* health_check() is called for a health request and for no other line.
C27_HealthAggregation ==
  \A c \in Conns :
    /\ (Written(c) /\ last[c].kind = "health") =>
         /\ WireOk(last[c])
         /\ UnescapeStr(Payload(C27_Result(last[c])["status"])) = C27_Expected(last[c])
         /\ last[c].fx = { "health_check" }
    /\ (Written(c) /\ last[c].kind # "health") => "health_check" \notin last[c].fx
    /\ (InHand(c) /\ cur[c].kind # "health") => "health_check" \notin cur[c].fx

\* C27 witness: a health request has been answered with "degraded".
C27_Witness ==
  \E c \in Conns :
    /\ Written(c) /\ last[c].kind = "health"
    /\ UnescapeStr(Payload(C27_Result(last[c])["status"])) = << "degraded" >>

\* the names in the "methods" array of a written response, in order
C28_Names(e) ==
  LET ms == Payload(Payload(WireObj(e)["result"])["methods"])
  IN  [i \in DOMAIN ms |-> UnescapeStr(Payload(Payload(ms[i])["name"]))]

\* the names the claim gives: the built-ins, then method_list() in order,
\* a name without '.' prefixed, a name with '.' as it is
C28_Expected ==
  LET custom == ServiceMethodList(svcName)
  IN  << Health, Stop, Methods >> \o
      [i \in DOMAIN custom |->
         IF Contains(custom[i].name, Dot)
           THEN custom[i].name
           ELSE svcName \o << Dot >> \o custom[i].name]

\* C28: the answer to a methods request lists health, stop, methods and
\* then the methods of method_list() in their order, a name without '.'
\* prefixed with "<service>.", a name with a '.' unchanged.
C28_MethodsList ==
  \A c \in Conns :
    (Written(c) /\ last[c].kind = "methods") =>
      /\ WireOk(last[c])
      /\ C28_Names(last[c]) = C28_Expected

\* C28 witness: a methods request has been answered for a service whose
\* method_list() has a name without '.', a name of its own namespace and a
\* name of another namespace.
C28_Witness ==
  /\ \E c \in Conns : Written(c) /\ last[c].kind = "methods"
  /\ \E i, j, k \in DOMAIN ServiceMethodList(svcName) :
       /\ ~ Contains(ServiceMethodList(svcName)[i].name, Dot)
       /\ StartsWith(ServiceMethodList(svcName)[j].name, ServicePrefix(svcName))
       /\ Contains(ServiceMethodList(svcName)[k].name, Dot)
       /\ ~ StartsWith(ServiceMethodList(svcName)[k].name, ServicePrefix(svcName))

\* the handlers that enter service.dispatch in a step
C29_Entering == { c \in Conns : hpc[c] # "dispatch" /\ hpc'[c] = "dispatch" }

C29_Step ==
  /\ callCount' = callCount + Cardinality(C29_Entering)
  /\ \A c \in Conns :
       (hpc[c] = "read" /\ hpc'[c] = "write") => callCount' = callCount

\* C29: the handlers of all connections work on one service instance: its
\* call counter goes up by one with every call of dispatch, on whichever
\* connection, and stays as it is when a line is answered by a built-in
\* or rejected.
C29_SharedService ==
  /\ [] (callCount \in 0 .. MaxLines)
  /\ [] (callCount >= Cardinality({ c \in Conns : hpc[c] = "dispatch" }))
  /\ [][C29_Step]_vars

\* C29 witness: dispatch has been called on two connections and the
\* counter of the service is 2.
C29_Witness ==
  /\ callCount = 2
  /\ \A c \in { 1, 2 } :
       \/ hpc[c] = "dispatch"
       \/ Written(c) /\ last[c].kind = "dispatch"

\* the states of a connection that no handler will read from any more: its
\* handler has returned, or the accept loop has taken it and dropped it
C25_NoHandler == { "dropped", "read_error", "shutdown", "eof", "write_error" }

\* this step takes the handler away from connection c while its client is
\* connected and a request that the client has delivered waits to be read
C25_LeavesRequest(c) ==
  /\ alive /\ conn[c] = "connected" /\ conn'[c] = "connected"
  /\ hpc[c] \notin C25_NoHandler /\ hpc'[c] \in C25_NoHandler
  /\ \E i \in DOMAIN inbuf'[c] : Decodes(inbuf'[c][i])

\* C25: every request line delivered on an established connection gets its
\* response; a delivered request is left without one only when the
\* connection was lost before the response could be written.  (Here: the
\* server never gives up a connected client's connection while a request
\* that client has delivered is waiting on it.)
C25_EveryRequestAnswered ==
  [][\A c \in Conns : ~ C25_LeavesRequest(c)]_vars

\* what holds of C25: a delivered request is left behind only after the
\* running flag was cleared or when the handler met a line that is not
\* UTF-8
C25_LossesAccounted ==
  [][\A c \in Conns :
       C25_LeavesRequest(c) => (~ running' \/ hpc'[c] = "read_error")]_vars

\* a stream error or the disconnect of the peer has ended the handler of c
C26_Ended(c) == hpc[c] \in { "eof", "write_error", "read_error" }

C26_Step ==
  \A c \in Conns :
    (~ C26_Ended(c) /\ hpc'[c] \in { "eof", "write_error", "read_error" }) =>
      /\ UNCHANGED << running, servePc, listener, sockFile, backlog, callCount >>
      /\ \A d \in Conns \ { c } :
           /\ hpc'[d] = hpc[d] /\ cur'[d] = cur[d] /\ last'[d] = last[d]
           /\ inbuf'[d] = inbuf[d] /\ conn'[d] = conn[d]

\* C26: a stream error or a disconnect of the peer on one connection ends
\* the handler of that connection and nothing else: the running flag, the
\* accept loop and the other handlers are as they were, and a request that
\* waits on another connection, accepted or not yet accepted, is answered
\* (unless the flag is cleared or its client goes away first).
C26_ConnectionIsolation ==
  /\ [][C26_Step]_vars
  /\ \A d \in Conns \ { SlowConn } : \A c \in Conns \ { d } : \A k \in 0 .. MaxLines :
       (C26_Ended(c) /\ running /\ servePc = "accepting" /\ C12_Waiting(d)
          /\ nwritten[d] = k)
         ~> (nwritten[d] = k + 1 \/ ~ running \/ conn[d] = "closed")

\* C26 witness: the handler of one connection has ended on a failed write
\* while the server runs, accepts, and has answered a request on another
\* connection.
C26_Witness ==
  /\ hpc[1] = "write_error"
  /\ running /\ servePc = "accepting"
  /\ Written(2) /\ last[2].kind = "dispatch" /\ hpc[2] = "read"

\* the call of the client has returned
Returned == cl.pc = "idle" /\ IsSome(cl.result)

\* the error a returned call has failed with
ReturnedErr == Payload(Unwrap(cl.result))

\* how often the current call has done op
Count(op) == Cardinality({ i \in DOMAIN cl.log : cl.log[i][1] = op })

\* the call has connected twice and failed both times
C22_RetryFailed ==
  /\ Returned
  /\ Count("connect") = 2
  /\ \A i \in DOMAIN cl.log : cl.log[i][1] = "connect" => cl.log[i][2] = 0

\* C22: with auto-start configured, when the first connect and the one
\* retry both fail, the error returned to the caller is the failure of the
\* first connect, wrapped with the auto-start context.
C22_OriginalFailurePropagated ==
  C22_RetryFailed =>
    /\ IsErr(Unwrap(cl.result))
    /\ ReturnedErr.context = Some(CannotConnectAfterAutoStart)
    /\ ReturnedErr.cause.kind = Unwrap(cl.e).kind

\* what holds of C22: a failed first connect of an auto-start client is
\* followed by one start_service and, when that succeeds, by one retry; a
\* failed retry returns the failure of the retry with the auto-start context
C22_RetryFailurePropagated ==
  /\ (cl.pc # "off" /\ Count("connect") = 2) =>
       /\ IsSome(cl.auto) /\ IsSome(cl.e)
       /\ cl.log[1] = << "connect", 0 >> /\ cl.log[2] = << "start_service", 0 >>
       /\ cl.log[3][1] = "connect"
  /\ C22_RetryFailed =>
       /\ IsErr(Unwrap(cl.result))
       /\ ReturnedErr.context = Some(CannotConnectAfterAutoStart)
       /\ ReturnedErr.cause.attempt = 2
       /\ Unwrap(cl.e).attempt = 1

\* C23: per call, a client without auto-start connects exactly once and
\* never calls start_service; a client with auto-start connects at most
\* twice and calls start_service at most once; once a connect has
\* succeeded nothing is tried again: no further connect, no start_service,
\* and each operation on the stream at most once, whatever fails.
C23_NoSilentRetry ==
  cl.pc # "off" =>
    /\ Count("connect") <= (IF IsSome(cl.auto) THEN 2 ELSE 1)
    /\ Count("start_service") <= (IF IsSome(cl.auto) THEN 1 ELSE 0)
    /\ (Returned /\ IsNone(cl.auto)) => Count("connect") = 1
    /\ \A i \in DOMAIN cl.log :
         (cl.log[i][1] = "connect" /\ cl.log[i][2] # 0) =>
           \A j \in DOMAIN cl.log :
             j > i => cl.log[j][1] \notin { "connect", "start_service" }
    /\ \A op \in { "set_read_timeout", "set_write_timeout", "write", "flush",
                   "read_line" } : Count(op) <= 1
    /\ (Returned /\ IsErr(Unwrap(cl.result)) /\ cl.stream # 0) =>
         cl.log[Len(cl.log)][1] \notin { "connect", "start_service" }

\* C23 witness: a call of an auto-start client has connected at its second
\* attempt, has written its request, and has returned the timeout of the
\* read.
C23_Witness ==
  /\ Returned /\ IsSome(cl.auto)
  /\ Count("connect") = 2 /\ Count("start_service") = 1
  /\ cl.stream # 0 /\ Len(cl.wrote) = 1
  /\ IsErr(Unwrap(cl.result)) /\ ReturnedErr.cause.kind = "WouldBlock"

\* the operations of one round trip on stream n, in order
C24_RoundTrip(n) ==
  << << "set_read_timeout", n >>, << "set_write_timeout", n >>, << "write", n >>,
     << "flush", n >>, << "read_line", n >> >>

C24_OnStream(x) == x[1] \notin { "connect", "start_service" }

\* C24: each call is one round trip on a fresh connection: the connection
\* is one no earlier call has used, the timeouts are set before the write
\* and the read, one request line is written and flushed, one line is read,
\* and the call returns that line decoded.
C24_OneRoundTrip ==
  cl.pc # "off" =>
    LET ops == SelectSeq(cl.log, C24_OnStream) IN
    /\ Len(ops) <= 5 /\ ops = SubSeq(C24_RoundTrip(cl.stream), 1, Len(ops))
    /\ ops # << >> => cl.stream # 0
    /\ cl.stream \notin cl.used
    /\ Len(cl.wrote) <= 1
    /\ \A i \in DOMAIN cl.wrote : cl.wrote[i] = RequestToNdjsonLine(Unwrap(cl.req))
    /\ cl.pc \in { "flush", "read" } => Len(cl.wrote) = 1
    /\ IsSome(cl.got) => ops = C24_RoundTrip(cl.stream)
    /\ (Returned /\ IsOk(Unwrap(cl.result))) =>
         /\ ops = C24_RoundTrip(cl.stream)
         /\ Len(cl.wrote) = 1
         /\ IsSome(cl.got)
         /\ Unwrap(cl.result) = ResponseFromNdjsonLine(Unwrap(cl.got))

\* C24 witness: the second call of a client has returned a response, read
\* from a connection other than the one its first call used.
C24_Witness ==
  /\ Returned /\ IsOk(Unwrap(cl.result))
  /\ cl.calls = 2 /\ cl.used # {} /\ cl.stream \notin cl.used
  /\ Payload(Unwrap(cl.result)).id = Unwrap(cl.req).id

\* C30: the Request that call(method, params) sends has the pairs of params
\* as its params when params is an object, no params when params is null,
\* and the one pair "value": params otherwise; its method is the method
\* given and its version is PROTOCOL_VERSION.
C30_ParamWrapping ==
  IsSome(cl.req) =>
    LET r == Unwrap(cl.req) IN
    /\ r.method = cl.method
    /\ r.v = PROTOCOL_VERSION
    /\ Tag(cl.params) = "obj" =>
         /\ DOMAIN r.params = DOMAIN Payload(cl.params)
         /\ \A k \in DOMAIN r.params : r.params[k] = Payload(cl.params)[k]
    /\ Tag(cl.params) = "null" => DOMAIN r.params = {}
    /\ Tag(cl.params) \notin { "obj", "null" } =>
         /\ DOMAIN r.params = { "value" }
         /\ r.params["value"] = cl.params
    /\ \A i \in DOMAIN cl.wrote :
         /\ Decodes(cl.wrote[i])
         /\ Decoded(cl.wrote[i]).method = r.method
         /\ Decoded(cl.wrote[i]).v = r.v
         /\ DOMAIN Decoded(cl.wrote[i]).params = DOMAIN r.params
         /\ \A k \in DOMAIN r.params : Decoded(cl.wrote[i]).params[k] = r.params[k]

\* C30 witness: a request has been written for a call whose params was an
\* array, and its params on the wire is the one pair "value": that array.
C30_Witness ==
  /\ Len(cl.wrote) = 1
  /\ Tag(cl.params) = "arr"
  /\ Decoded(cl.wrote[1]).params["value"] = cl.params

\* C31: the line that to_ndjson_line makes of a Request or a Response is
\* the text of one JSON document followed by the newline that ends it; no
\* newline character stands inside the document, a newline of a string
\* value being written in escaped form; so the text up to the first
\* newline is the whole message, and from_ndjson_line reads a message with
\* the same id from it.
C31_Framing ==
  rt.pc \in { "encoded", "decoded" } =>
    /\ LineKind(rt.line) = "text"
    /\ ~ RawNewline(LineDoc(rt.line))
    /\ rt.pc = "decoded" =>
         /\ IsOk(Unwrap(rt.y))
         /\ Payload(Unwrap(rt.y)).id = Unwrap(rt.x).id

\* C31 witness: a request whose id has a newline in it has been written,
\* and read back.
C31_Witness ==
  /\ rt.pc = "decoded"
  /\ rt.kind = "request"
  /\ Contains(Unwrap(rt.x).id, Newline)
  /\ IsOk(Unwrap(rt.y))

\* the line is a stop built-in request of the supported protocol version
C32_StopRequest(l) ==
  /\ Decodes(l)
  /\ Decoded(l).v = PROTOCOL_VERSION
  /\ Decoded(l).method \in { Stop, ServicePrefix(svcName) \o Stop }

C32_State ==
  servePc \in { "new", "started", "cleaned", "bound", "restricted",
                "start_failed", "bind_failed", "perm_failed" } => ~ running

C32_Step ==
  /\ (~ running /\ running') =>
       /\ servePc = "restricted" /\ servePc' = "accepting"
       /\ listener /\ sockFile = "socket" /\ sockMode = "0600"
  /\ (running /\ ~ running') =>
       \/ UNCHANGED << svcName, servePc, sockFile, sockMode, listener, backlog, conn,
                       inbuf, sent, hpc, cur, nread, nwritten, last, prevKind,
                       onStart, onStop, alive, callCount >>
       \/ \E c \in Conns :
            /\ inbuf[c] # << >>
            /\ Takes(c, Head(inbuf[c]))
            /\ C32_StopRequest(Head(inbuf[c]))

\* C32: the running flag is false from construction until serve() stores
\* true, which it does only after bind and set_permissions have succeeded;
\* it is cleared only by FgpServer::stop(), a step that changes nothing
\* else, or by a handler that takes a stop or <service>.stop request of the
\* supported version.  No other request or line and no connect, close or
\* I/O error changes the flag.
C32_RunningFlagFrame == [] C32_State /\ [][C32_Step]_vars

\* C32 witness: with the flag set, one connection has been answered for
\* "o.stop", a stop request of another namespace, and the handler of the
\* other has ended because its client went away.
C32_Witness ==
  /\ running
  /\ Written(1) /\ last[1].kind = "mismatch"
  /\ Unwrap(last[1].req).method = << "o", Dot, "stop" >>
  /\ hpc[2] \in { "eof", "write_error" }

\* the client of c has received the acknowledgment of a stop request
C34_Acked(c) == Written(c) /\ last[c].kind = "stop"

C34_Step ==
  \A c \in Conns :
    C34_Acked(c) =>
      /\ hpc'[c] \in { "check", "shutdown" }
      /\ nread'[c] = nread[c]
      /\ Len(inbuf'[c]) >= Len(inbuf[c])

\* C34: in every state in which a client has received the acknowledgment
\* of a stop request the running flag is false, and the handler that wrote
\* it takes no further line from that connection.
C34_ClearedBeforeAck ==
  /\ [] (\A c \in Conns : C34_Acked(c) => (~ running /\ hpc[c] \in { "check", "shutdown" }))
  /\ [][C34_Step]_vars

\* C34 witness: the handler that acknowledged a stop request has left its
\* loop with a further request of its client unread.
C34_Witness ==
  \E c \in Conns :
    /\ C34_Acked(c)
    /\ hpc[c] = "shutdown"
    /\ conn[c] = "connected"
    /\ inbuf[c] # << >> /\ Decodes(Head(inbuf[c]))

\* C35: serve() goes on without its workers: whatever the handlers are
\* doing, on_stop is called once the accept loop has exited and the socket
\* file is removed and serve() returns after it; a handler that is inside
\* dispatch, or that has a line to read, goes on as long as the process
\* exists, whether on_stop has been called or not.
C35_NoJoin ==
  /\ servePc = "exited" => ENABLED ServeOnStop
  /\ servePc = "hooked" => ENABLED ServeCleanup
  /\ \A c \in Conns :
       /\ (alive /\ hpc[c] = "dispatch") => ENABLED HandlerDispatchReturn(c)
       /\ (alive /\ hpc[c] = "read" /\ inbuf[c] # << >>) => ENABLED HandlerReadLine(c)

\* C35 witness: serve() has called on_stop, removed the socket file and
\* returned while a worker is inside dispatch.
C35_Witness ==
  /\ servePc = "returned" /\ Len(onStop) = 1 /\ sockFile = "absent"
  /\ alive
  /\ \E c \in Conns : hpc[c] = "dispatch" /\ conn[c] = "connected"

C38_Failed == servePc \in { "bind_failed", "perm_failed" }

C38_State ==
  /\ C38_Failed =>
       /\ onStart = << "Ok" >>
       /\ ~ running
       /\ onStop = << >>
       /\ \A c \in Conns : hpc[c] = "none"
  /\ onStop # << >> => (onStart = << "Ok" >> /\ servePc \in { "hooked", "returned" })

C38_Step ==
  /\ C38_Failed => UNCHANGED << servePc, running, onStop, hpc >>
  /\ onStop' # onStop => servePc = "exited"

\* C38: when bind or set_permissions fails after on_start has succeeded,
\* serve() returns with the running flag false, no connection accepted and
\* on_stop not called, and it stays so; on_stop is called only by a serve()
\* whose accept loop was entered and has exited.
C38_NoStopHookOnSetupFailure == [] C38_State /\ [][C38_Step]_vars

\* C38 witness: set_permissions has failed while a client that connected
\* after the bind was waiting to be accepted.
C38_Witness ==
  /\ servePc = "perm_failed"
  /\ onStart = << "Ok" >> /\ onStop = << >>
  /\ backlog # << >>

C36_Step ==
  /\ (stopBeforeRun /\ servePc = "restricted" /\ servePc' # servePc) =>
       (servePc' = "accepting" /\ running')
  /\ (servePc = "accepting" /\ servePc' # servePc) => (~ running /\ ~ running')

\* C36: a stop() called before serve() has stored running = true is lost:
\* serve() stores true all the same and enters its accept loop, and it
\* leaves the loop only with the flag false, that is, after the flag has
\* been cleared again.
C36_EarlyStopLost ==
  /\ [] ((stopBeforeRun /\ servePc = "restricted") => (~ running /\ ENABLED ServeSetRunning))
  /\ [] ((stopBeforeRun /\ running) => servePc = "accepting")
  /\ [][C36_Step]_vars

\* C36 witness: stop() was called before serve() stored true, and serve()
\* is in its accept loop with the flag set and has answered a request.
C36_Witness ==
  /\ stopBeforeRun
  /\ servePc = "accepting" /\ running
  /\ \E c \in Conns : Written(c) /\ hpc[c] = "read"

\* this instance serves with the flag set while no socket file is at the path
C37_Unreachable ==
  /\ servePc = "accepting" /\ running /\ listener
  /\ sockFile = "absent"

C37_Step ==
  /\ (servePc = "started" /\ servePc' # servePc) => sockFile' = "absent"
  /\ (servePc = "cleaned" /\ servePc' = "bound") => (sockFile' = "socket" /\ listener')
  /\ (other = "listening" /\ other' = "stopped") =>
       (sockFile' = "absent" /\ UNCHANGED << running, servePc, listener >>)
  /\ C37_Unreachable =>
       (sockFile' = "absent" /\ \A c \in Conns : conn[c] = "idle" => conn'[c] = "idle")

\* C37: a serve() started on a path where another instance listens removes
\* that instance's socket file and binds its own; the cleanup of the other
\* instance then removes the file of this one, which goes on serving with
\* the flag set while no new connection can reach it.
C37_SharedPath ==
  /\ [] (C37_Unreachable => \A c \in Conns : ~ ENABLED ClientConnect(c))
  /\ [] (sockFile = "other" => servePc \in { "new", "started", "start_failed" })
  /\ [][C37_Step]_vars

\* C37 witness: the other instance was listening when this one started and
\* has stopped since; this one serves a connection made before that, and
\* its socket file is gone.
C37_Witness ==
  /\ other = "stopped"
  /\ C37_Unreachable
  /\ \E c \in Conns : hpc[c] = "read" /\ conn[c] = "connected"
  /\ \E c \in Conns : conn[c] = "idle"

\* stop_service has returned Ok
C33_ReturnedOk == lc.pc = "done" /\ IsOk(Unwrap(lc.result))

\* C33: when stop_service has returned Ok, neither the socket file nor the
\* PID file of the service exists, whichever way the function took.
C33_FilesRemoved ==
  C33_ReturnedOk => (lc.sock = "absent" /\ lc.pidFile = "absent")

\* what holds of C33: the files are removed when stop_service has returned
\* Ok by its last statement, not by the return that follows the
\* acknowledgment of the stop request
C33_CleanupPath ==
  (C33_ReturnedOk /\ ~ lc.acked) =>
    (lc.sock = "absent" /\ lc.pidFile = "absent" /\ lc.removed = { "socket", "pid" })

\* the process of the PID file has a command name that holds the file name
\* of the manifest's daemon.entrypoint
C40_NameMatches ==
  /\ lc.manifest = "ok"
  /\ IsSome(lc.comm)
  /\ ContainsStr(Unwrap(lc.comm), EntrypointName)

C40_SignalOnlyOnMatch ==
  /\ lc.signals <= 1
  /\ lc.signals = 1 => (IsSome(lc.pidContent) /\ C40_NameMatches /\ ~ lc.acked)

C40_Refused ==
  /\ IsErr(Unwrap(lc.result))
  /\ lc.signals = 0
  /\ lc.removed = {}

\* C40 as it is stated: SIGTERM is sent only to a running process of the
\* PID file whose command name holds the entrypoint's file name; and
\* whenever the manifest or its entrypoint is missing, or the name of that
\* process does not match, stop_service returns an error, sends no signal
\* and removes no file.
C40_AsStated ==
  /\ C40_SignalOnlyOnMatch
  /\ (lc.pc = "done" /\ IsSome(lc.pidContent) /\ IsSome(lc.comm)
        /\ ~ C40_NameMatches) => C40_Refused

\* C40, amended: SIGTERM is sent only to a running process of the PID file
\* whose command name holds the entrypoint's file name; when the stop
\* request was not acknowledged and the PID file names a running process,
\* then stop_service returns an error, sends no signal and removes no file
\* if the manifest or its entrypoint is missing or the name does not match.
C40_SignalGuard ==
  /\ C40_SignalOnlyOnMatch
  /\ (lc.pc = "done" /\ ~ lc.acked /\ IsSome(lc.pidContent) /\ IsSome(lc.comm)
        /\ ~ C40_NameMatches) =>
       (C40_Refused /\ lc.pidFile = "present")

\* C40 witness: the PID file names a running process of another name, the
\* socket file is there with nothing listening, the manifest names the
\* entrypoint, and stop_service has refused.
C40_Witness ==
  /\ lc.pc = "done"
  /\ lc.sock = "stale" /\ lc.pidFile = "present"
  /\ lc.manifest = "ok"
  /\ lc.comm = Some(<< "s", "h" >>)
  /\ IsErr(Unwrap(lc.result)) /\ lc.signals = 0

\* the health call of is_running has read a line that decodes as a Response
C39_DecodableResponse ==
  IsSome(cl.got) /\ IsOk(ResponseFromNdjsonLine(Unwrap(cl.got)))

\* C39: is_running() makes a health call and returns true exactly when that
\* call has read a decodable Response, whatever its ok field; on a client
\* without auto-start it makes one connect attempt and never calls
\* start_service; on a client with auto-start a failed connect is followed
\* by a call of start_service.
C39_IsRunning ==
  cl.api = "is_running" =>
    /\ cl.method = Health /\ cl.params = JNull
    /\ IsSome(cl.ret) => (Unwrap(cl.ret) <=> C39_DecodableResponse)
    /\ cl.auto = None =>
         /\ Count("connect") <= 1
         /\ Count("start_service") = 0
         /\ IsSome(cl.ret) => Count("connect") = 1
    /\ (IsSome(cl.auto) /\ IsSome(cl.ret) /\ cl.log[1] = << "connect", 0 >>) =>
         Count("start_service") = 1

\* C39 witness: is_running() on a client with auto-start whose first
\* connect failed has called start_service, the daemon now listens, and
\* true was returned for a response with ok = false.
C39_Witness ==
  /\ cl.api = "is_running"
  /\ IsSome(cl.auto)
  /\ cl.ret = Some(TRUE)
  /\ cl.log[1] = << "connect", 0 >>
  /\ Count("start_service") = 1
  /\ cl.sock = "listening"
  /\ ~ Payload(Unwrap(cl.result)).ok

=============================================================================
